---- MODULE Spec2Model ----
(***************************************************************************)
(* A model of the Tox interpreter (notrealandy/ToxLang_alpha): the         *)
(* tree-walking evaluator (src/evaluator/evaluator.go), the import loader  *)
(* and the driver (src/cmd/tox/main.go) and the parts of the type checker  *)
(* (src/typechecker/typechecker.go) the driver depends on.                 *)
(*                                                                         *)
(* Representation.                                                         *)
(*  - A Go string that is an identifier is a sequence of its dot-separated *)
(*    segments: "u.name" is <<"u","name">>.  strings.Contains(s,".") is    *)
(*    Len(s) > 1 and strings.SplitN(s,".",2) is <<<<s[1]>>, Tail(s)>>.     *)
(*  - A runtime value (Go interface{}) is a record [t, v]: t is the        *)
(*    dynamic type, v the payload.  A []interface{} is a slice header      *)
(*    <<base, off, len>> over a backing array on the heap; both kinds of   *)
(*    Go map are heap addresses; an Environment is an index into frames.   *)
(*  - An AST node is a record with a field k naming its Go type.           *)
(***************************************************************************)
EXTENDS Integers, Sequences, FiniteSets, TLC

(***************************************************************************)
(* Bounds of the model.                                                    *)
(***************************************************************************)
\* loop iterations plus function calls one run may perform
MaxSteps == 20

(***************************************************************************)
(* Runtime values.                                                         *)
(***************************************************************************)
Nil == [t |-> "nil", v |-> 0]
IntV(n) == [t |-> "int", v |-> n]
\* a Go int, what the file built-ins return as a handle; a Tox Int is an int64
GoIntV(n) == [t |-> "goint", v |-> n]
StrV(s) == [t |-> "str", v |-> s]
BoolV(b) == [t |-> "bool", v |-> b]
ArrV(base, off, len) == [t |-> "arr", v |-> <<base, off, len>>]
StructV(addr) == [t |-> "struct", v |-> addr]
MapV(addr) == [t |-> "map", v |-> addr]
FnV(fnStmt) == [t |-> "fn", v |-> fnStmt]
breakSignal == [t |-> "break", v |-> 0]
continueSignal == [t |-> "continue", v |-> 0]

IsSignal(val) == val.t \in {"break", "continue"}

(***************************************************************************)
(* AST constructors (ast package).                                         *)
(***************************************************************************)
NoExpr == [k |-> "none"]
IntegerLiteral(n) == [k |-> "int", Value |-> n]
BoolLiteral(b) == [k |-> "bool", Value |-> b]
\* Value is the literal's text cut at its <%...%> fragments: a sequence of
\* [lit |-> text] and [hole |-> inner text, as a dotted name]
StringLiteral(parts) == [k |-> "str", Value |-> parts]
Str(s) == StringLiteral(<<[lit |-> s]>>)
NilLiteral == [k |-> "nil"]
Identifier(name) == [k |-> "ident", Value |-> name]
Id(s) == Identifier(<<s>>)
BinaryExpression(l, op, r) == [k |-> "bin", Left |-> l, Operator |-> op, Right |-> r]
UnaryExpression(op, r) == [k |-> "un", Operator |-> op, Right |-> r]
CallExpression(fn, args) == [k |-> "call", Function |-> fn, Arguments |-> args]
ArrayLiteral(elems) == [k |-> "array", Elements |-> elems]
IndexExpression(l, i) == [k |-> "index", Left |-> l, Index |-> i]
SliceExpression(l, s, e) == [k |-> "slice", Left |-> l, Start |-> s, End |-> e]
\* Fields and Pairs are Go maps; the model fixes one iteration order
StructLiteral(name, fields) == [k |-> "structlit", StructName |-> name, Fields |-> fields]
MapLiteral(kt, vt, pairs) == [k |-> "maplit", KeyType |-> kt, ValueType |-> vt, Pairs |-> pairs]

LetStatement(name, type, value, vis) ==
    [k |-> "let", Name |-> name, Type |-> type, Value |-> value, Visibility |-> vis]
FunctionStatement(name, params, ptypes, rtype, body, vis) ==
    [k |-> "fn", Name |-> name, Params |-> params, ParamTypes |-> ptypes,
     ReturnType |-> rtype, Body |-> body, Visibility |-> vis]
LogFunction(value) == [k |-> "log", Value |-> value]
ReturnStatement(value) == [k |-> "return", Value |-> value]
IfStatement(c, body, econds, ebodies, else) ==
    [k |-> "if", IfCond |-> c, IfBody |-> body, ElifConds |-> econds,
     ElifBodies |-> ebodies, ElseBody |-> else]
\* Name is the target when it is an identifier, the indexed identifier
\* when it is an index expression (parseAssignmentStatementFrom)
AssignmentStatement(left, value) ==
    [k |-> "assign",
     Name |-> IF left.k = "ident" THEN left.Value
              ELSE IF left.k = "index" /\ left.Left.k = "ident" THEN left.Left.Value
              ELSE <<>>,
     Left |-> left, Value |-> value]
WhileStatement(c, body) == [k |-> "while", Condition |-> c, Body |-> body]
\* Init and Post are statements or NoStmt (Go nil)
NoStmt == [k |-> "nostmt"]
ForStatement(init, c, post, body) ==
    [k |-> "for", Init |-> init, Condition |-> c, Post |-> post, Body |-> body]
ExpressionStatement(e) == [k |-> "expr", Expr |-> e]
BreakStatement == [k |-> "break"]
ContinueStatement == [k |-> "continue"]
StructStatement(name, fields) == [k |-> "struct", Name |-> name, Fields |-> fields]
PackageStatement(name) == [k |-> "package", Name |-> name]
ImportStatement(path) == [k |-> "import", Path |-> path]

(***************************************************************************)
(* Interpreter state: the environments and the Go heap, the lines written  *)
(* to stdout, and whether the process is still running.  Once halt is not  *)
(* "run" (a Go panic, or the model's step bound) nothing is written any    *)
(* more: every operator that changes the state leaves a halted state as it *)
(* is.                                                                     *)
(***************************************************************************)
EmptyStore == [n \in {} |-> Nil]
\* fileHandles (handle -> the name of the open file), fileReaders (the
\* handles with a reader) and nextFileHandle of the built-in registry, and
\* ops, the log of the calls that issued a handle or were given one:
\* used says whether the call touched an open file
NoFiles ==
    [fileHandles |-> [h \in {} |-> ""], fileReaders |-> {}, nextFileHandle |-> 1,
     ops |-> <<>>]

NewState ==
    [frames |-> <<>>, heap |-> <<>>, out |-> <<>>, halt |-> "run", steps |-> 0,
     files |-> NoFiles]


Running(st) == st.halt = "run"
Panic(st) == [st EXCEPT !.halt = IF @ = "run" THEN "panic" ELSE @]
\* one more loop iteration or call; past MaxSteps the run is cut off
Tick(st) ==
    IF st.steps >= MaxSteps
    THEN [st EXCEPT !.halt = IF @ = "run" THEN "bound" ELSE @]
    ELSE [st EXCEPT !.steps = @ + 1]

\* NewEnvironment / NewEnclosedEnvironment: the new frame is the last one
NewEnclosedEnvironment(st, outer) ==
    IF Running(st)
    THEN [st EXCEPT !.frames = Append(@, [store |-> EmptyStore, parent |-> outer])]
    ELSE st
NewEnvironment(st) == NewEnclosedEnvironment(st, 0)
LastEnv(st) == Len(st.frames)

RECURSIVE Get(_, _, _)
Get(frames, env, name) ==
    IF name \in DOMAIN frames[env].store
    THEN [val |-> frames[env].store[name], ok |-> TRUE]
    ELSE IF frames[env].parent # 0
         THEN Get(frames, frames[env].parent, name)
         ELSE [val |-> Nil, ok |-> FALSE]

Set(st, env, name, val) ==
    IF Running(st)
    THEN [st EXCEPT !.frames[env].store = (name :> val) @@ @]
    ELSE st

\* the frame SetExisting writes to, 0 when the name is bound nowhere
RECURSIVE OwnerOf(_, _, _)
OwnerOf(frames, env, name) ==
    IF name \in DOMAIN frames[env].store THEN env
    ELSE IF frames[env].parent # 0 THEN OwnerOf(frames, frames[env].parent, name)
    ELSE 0

SetExisting(st, env, name, val) ==
    LET o == OwnerOf(st.frames, env, name)
    IN IF o # 0 THEN [st |-> Set(st, o, name, val), ok |-> TRUE]
       ELSE [st |-> st, ok |-> FALSE]

getGlobalEnvOfCaller(frames, env) == env

RECURSIVE getGlobalEnv(_, _)
getGlobalEnv(frames, env) ==
    IF frames[env].parent # 0 THEN getGlobalEnv(frames, frames[env].parent) ELSE env


(***************************************************************************)
(* The Go heap: backing arrays of slices and the two kinds of map.         *)
(***************************************************************************)
Alloc(st, obj) == IF Running(st) THEN [st EXCEPT !.heap = Append(@, obj)] ELSE st
LastAddr(st) == Len(st.heap)

ArrLen(val) == val.v[3]
\* the elements a slice header shows
ArrElems(st, val) ==
    [i \in 1..ArrLen(val) |-> st.heap[val.v[1]].cells[val.v[2] + i]]

\* arrSlice[i] = val, i a valid 0-based index
ArrayStoreLost(st, arr, i, val) == st

ArrayStore(st, arr, i, val) ==
    IF Running(st)
    THEN [st EXCEPT !.heap[arr.v[1]].cells[arr.v[2] + i + 1] = val]
    ELSE st

\* obj[fieldName] = val on a map[string]interface{}
FieldStoreLost(st, addr, key, val) ==
    Alloc(st, [st.heap[addr] EXCEPT !.cells = (key :> val) @@ @])

FieldStore(st, addr, key, val) ==
    IF Running(st)
    THEN [st EXCEPT !.heap[addr].cells = (key :> val) @@ @]
    ELSE st

\* Go == on two interface values panics when both have the same
\* uncomparable dynamic type (a slice or a map)
GoEqPanics(a, b) == a.t = b.t /\ a.t \in {"arr", "struct", "map"}

\* Go == on two interface values that can be compared
GoEq(a, b) ==
    IF a.t # b.t THEN FALSE
    ELSE IF a.t = "fn" THEN a.v.Name = b.v.Name
    ELSE a.v = b.v

Hashable(val) == val.t \notin {"arr", "struct", "map"}

RECURSIVE MapFind(_, _, _)
MapFind(cells, key, i) ==
    IF i > Len(cells) THEN 0
    ELSE IF GoEq(cells[i].key, key) THEN i
    ELSE MapFind(cells, key, i + 1)

\* m[idx] on a map[interface{}]interface{}; idx is hashable
MapLoad(st, addr, key) ==
    LET i == MapFind(st.heap[addr].cells, key, 1)
    IN IF i = 0 THEN Nil ELSE st.heap[addr].cells[i].val

MapStoreLost(st, addr, key, val) == st

\* m[idx] = val
MapStore(st, addr, key, val) ==
    LET i == MapFind(st.heap[addr].cells, key, 1)
    IN IF ~Running(st) THEN st
       ELSE IF i = 0
       THEN [st EXCEPT !.heap[addr].cells = Append(@, [key |-> key, val |-> val])]
       ELSE [st EXCEPT !.heap[addr].cells[i].val = val]

(***************************************************************************)
(* Go integer division and remainder truncate toward zero.                 *)
(***************************************************************************)
Abs(x) == IF x < 0 THEN -x ELSE x
GoDiv(l, r) ==
    LET q == Abs(l) \div Abs(r)
    IN IF (l < 0) = (r < 0) THEN q ELSE -q
GoMod(l, r) == l - r * GoDiv(l, r)

isTruthy(val) ==
    CASE val.t = "bool" -> val.v
      [] val.t = "int" -> val.v # 0
      [] val.t = "str" -> val.v # ""
      [] OTHER -> val.t # "nil"

(***************************************************************************)
(* fmt.Sprint and printValue.  Maps and function pointers print as an      *)
(* opaque text.                                                            *)
(***************************************************************************)
RECURSIVE Join(_, _)
Join(strs, sep) ==
    IF Len(strs) = 0 THEN ""
    ELSE IF Len(strs) = 1 THEN strs[1]
    ELSE strs[1] \o sep \o Join(Tail(strs), sep)

RECURSIVE Sprint(_, _)
Sprint(st, val) ==
    CASE val.t \in {"int", "goint"} -> ToString(val.v)
      [] val.t = "str" -> val.v
      [] val.t = "bool" -> IF val.v THEN "true" ELSE "false"
      [] val.t = "nil" -> "<nil>"
      [] val.t = "arr" ->
           LET el == ArrElems(st, val)
           IN "[" \o Join([i \in 1..Len(el) |-> Sprint(st, el[i])], " ") \o "]"
      [] val.t \in {"break", "continue"} -> "{}"
      [] OTHER -> "map[...]"

WriteLine(st, line) ==
    IF Running(st) THEN [st EXCEPT !.out = Append(@, line)] ELSE st

printValue(st, val) ==
    IF val.t = "arr"
    THEN LET el == ArrElems(st, val)
         IN WriteLine(st, "[" \o Join([i \in 1..Len(el) |-> Sprint(st, el[i])], ", ") \o "]")
    ELSE WriteLine(st, Sprint(st, val))

\* the name as Go text
NameText(name) == Join(name, ".")

\* walk the fields of a <%a.b.c%> fragment
RECURSIVE Traverse(_, _, _)
Traverse(st, val, fields) ==
    IF Len(fields) = 0 THEN [val |-> val, ok |-> TRUE]
    ELSE IF val.t # "struct" THEN [val |-> Nil, ok |-> FALSE]
    ELSE IF <<fields[1]>> \notin DOMAIN st.heap[val.v].cells THEN [val |-> Nil, ok |-> FALSE]
    ELSE Traverse(st, st.heap[val.v].cells[<<fields[1]>>], Tail(fields))

InterpolateHole(st, env, inner) ==
    LET base == Get(st.frames, env, <<inner[1]>>)
        match == "<%" \o NameText(inner) \o "%>"
    IN IF Len(inner) > 1
       THEN IF ~base.ok THEN match
            ELSE LET r == Traverse(st, base.val, Tail(inner))
                 IN IF r.ok THEN Sprint(st, r.val) ELSE match
       ELSE IF base.ok THEN Sprint(st, base.val) ELSE match

RECURSIVE interpolateString(_, _, _)
interpolateString(st, env, parts) ==
    IF Len(parts) = 0 THEN ""
    ELSE (IF "lit" \in DOMAIN parts[1] THEN parts[1].lit
          ELSE InterpolateHole(st, env, parts[1].hole))
         \o interpolateString(st, env, Tail(parts))


(***************************************************************************)
(* Built-in registry (Builtins): the names, and the console built-ins.     *)
(***************************************************************************)
BuiltinNames ==
    {<<"go", "println">>, <<"go", "printf">>, <<"go", "time", "now">>,
     <<"go", "time", "sleep">>, <<"go", "file", "open">>, <<"go", "file", "close">>,
     <<"go", "file", "read">>, <<"go", "file", "write">>, <<"go", "file", "create">>,
     <<"go", "file", "remove">>, <<"go", "dir", "create">>, <<"go", "dir", "remove">>,
     <<"go", "dir", "removeAll">>, <<"go", "path", "exists">>, <<"go", "file", "stat">>,
     <<"go", "file", "readline">>, <<"go", "strings", "split">>,
     <<"go", "strings", "trim">>, <<"go", "strings", "toLower">>,
     <<"go", "strings", "toUpper">>, <<"go", "bytes", "make">>,
     <<"go", "bytes", "copy">>, <<"go", "bytes", "cap">>}

\* os.OpenFile and os.Create succeed but for the names in Unopenable; every
\* file is empty when the run starts
Unopenable == {"bad"}
FileEvent(op, h, used) == [op |-> op, h |-> h, used |-> used]
WithFiles(st, files) == IF Running(st) THEN [st EXCEPT !.files = files] ELSE st

\* issueHandleReused: nextFileHandle++ is left out
issueHandleReused(files, op, fname, withReader) ==
    [fileHandles |-> (files.nextFileHandle :> fname) @@ files.fileHandles,
     fileReaders |-> IF withReader THEN files.fileReaders \cup {files.nextFileHandle}
                     ELSE files.fileReaders,
     nextFileHandle |-> files.nextFileHandle,
     ops |-> Append(files.ops, FileEvent(op, files.nextFileHandle, TRUE))]

\* handle := nextFileHandle; fileHandles[handle] = f; (fileReaders[handle] =
\* bufio.NewReader(f);) nextFileHandle++
issueHandle(files, op, fname, withReader) ==
    [fileHandles |-> (files.nextFileHandle :> fname) @@ files.fileHandles,
     fileReaders |-> IF withReader THEN files.fileReaders \cup {files.nextFileHandle}
                     ELSE files.fileReaders,
     nextFileHandle |-> files.nextFileHandle + 1,
     ops |-> Append(files.ops, FileEvent(op, files.nextFileHandle, TRUE))]

\* go.file.open and go.file.create
goFileOpen(st, args, op) ==
    IF Len(args) = 0 THEN [st |-> st, val |-> Nil]
    ELSE IF args[1].t # "str" THEN [st |-> st, val |-> Nil]
    ELSE IF args[1].v \in Unopenable
    THEN [st |-> WriteLine(st, (IF op = "open" THEN "Open error: " ELSE "Create error: ")
                               \o args[1].v),
          val |-> Nil]
    ELSE [st |-> WithFiles(st, issueHandle(st.files, op, args[1].v, op = "open")),
          val |-> GoIntV(st.files.nextFileHandle)]

\* handle, ok := args[0].(int)
IsHandle(args) == IF Len(args) = 0 THEN FALSE ELSE args[1].t = "goint"
Logged(st, op, h, used) ==
    WithFiles(st, [st.files EXCEPT !.ops = Append(@, FileEvent(op, h, used))])

\* go.file.close: f.Close() and both deletes when the handle is in fileHandles
goFileClose(st, args) ==
    IF ~IsHandle(args) THEN [st |-> st, val |-> Nil]
    ELSE LET h == args[1].v
             open == h \in DOMAIN st.files.fileHandles
             files == [st.files EXCEPT
                           !.fileHandles = [k \in DOMAIN @ \ {h} |-> @[k]],
                           !.fileReaders = @ \ {h},
                           !.ops = Append(@, FileEvent("close", h, TRUE))]
         IN [st |-> IF open THEN WithFiles(st, files) ELSE Logged(st, "close", h, FALSE),
             val |-> Nil]

\* go.file.read: io.ReadAll(f) from the offset, which is at the end of what
\* the run has written
goFileRead(st, args) ==
    IF ~IsHandle(args) THEN [st |-> st, val |-> Nil]
    ELSE LET open == args[1].v \in DOMAIN st.files.fileHandles
         IN [st |-> Logged(st, "read", args[1].v, open),
             val |-> IF open THEN StrV("") ELSE Nil]

\* go.file.readline: reader.ReadString of the reader in fileReaders
goFileReadline(st, args) ==
    IF ~IsHandle(args) THEN [st |-> st, val |-> Nil]
    ELSE LET open == args[1].v \in st.files.fileReaders
         IN [st |-> Logged(st, "readline", args[1].v, open),
             val |-> IF open THEN StrV("") ELSE Nil]

\* go.file.write: f.WriteString(data)
goFileWrite(st, args) ==
    IF Len(args) < 2 THEN [st |-> st, val |-> BoolV(FALSE)]
    ELSE IF args[1].t # "goint" THEN [st |-> st, val |-> BoolV(FALSE)]
    ELSE IF args[2].t # "str" THEN [st |-> st, val |-> BoolV(FALSE)]
    ELSE LET open == args[1].v \in DOMAIN st.files.fileHandles
         IN [st |-> Logged(st, "write", args[1].v, open), val |-> BoolV(open)]

\* Builtins[name](args): go.println writes its arguments, the file built-ins
\* work on the file table; the other built-ins of the host (clock,
\* directories, strings, bytes) yield nil here
CallBuiltin(st, name, args) ==
    CASE name = <<"go", "println">> ->
           [st |-> WriteLine(st, Join([i \in 1..Len(args) |-> Sprint(st, args[i])], " ")),
            val |-> Nil]
      [] name = <<"go", "file", "open">> -> goFileOpen(st, args, "open")
      [] name = <<"go", "file", "create">> -> goFileOpen(st, args, "create")
      [] name = <<"go", "file", "close">> -> goFileClose(st, args)
      [] name = <<"go", "file", "read">> -> goFileRead(st, args)
      [] name = <<"go", "file", "readline">> -> goFileReadline(st, args)
      [] name = <<"go", "file", "write">> -> goFileWrite(st, args)
      [] OTHER -> [st |-> st, val |-> Nil]

(***************************************************************************)
(* evalExpr, by expression kind.                                           *)
(***************************************************************************)
\* The evaluator's functions call one another recursively; in the model
\* every such call goes through Ev, which dispatches on the function's name
\* to the definition of its body (the definitions named ...Impl below).
RECURSIVE Ev(_, _, _, _)
evalExpr(expr, env, st) == Ev("evalExpr", expr, env, st)
evalExprs(exprs, env, st) == Ev("evalExprs", exprs, env, st)
evalFields(fields, env, st) == Ev("evalFields", fields, env, st)
evalPairs(pairs, env, st, addr) == Ev("evalPairs", <<pairs, addr>>, env, st)
Eval(stmts, env, st) == Ev("Eval", stmts, env, st)
EvalStmt(stmt, env, st) == Ev("EvalStmt", stmt, env, st)
evalElifs(stmt, i, env, st) == Ev("evalElifs", <<stmt, i>>, env, st)
whileLoop(stmt, env, st) == Ev("whileLoop", stmt, env, st)
forLoop(stmt, forEnv, st) == Ev("forLoop", stmt, forEnv, st)
evalFunctionBody(stmts, env, st) == Ev("evalFunctionBody", stmts, env, st)

\* the error texts an Identifier evaluates to
ErrNotExist(name) ==
    StrV("Error: variable '" \o NameText(name) \o "' is not public or does not exist")
ErrNoField(field, base) ==
    StrV("Error: field '" \o NameText(field) \o "' not found in '" \o NameText(base) \o "'")
ErrNotStruct(base) ==
    StrV("Error: variable '" \o NameText(base) \o "' is not a struct")

evalIdentifier(st, env, name) ==
    LET full == Get(st.frames, env, name)
        baseName == <<name[1]>>
        fieldName == Tail(name)
        base == Get(st.frames, env, baseName)
    IN IF full.ok /\ full.val.t # "nil" THEN full.val
       ELSE IF Len(name) > 1
            THEN IF ~base.ok \/ base.val.t = "nil" THEN ErrNotExist(baseName)
                 ELSE IF base.val.t = "struct"
                      THEN IF fieldName \in DOMAIN st.heap[base.val.v].cells
                           THEN st.heap[base.val.v].cells[fieldName]
                           ELSE ErrNoField(fieldName, baseName)
                      ELSE ErrNotStruct(baseName)
            ELSE ErrNotExist(name)

\* the operator applied to two evaluated operands: [st, val]
evalBinary(st, op, left, right) ==
    LET lok == left.t = "int"
        rok == right.t = "int"
        l == left.v
        r == right.v
        ret(val) == [st |-> st, val |-> val]
    IN CASE op = "+" ->
              IF lok /\ rok THEN ret(IntV(l + r))
              ELSE IF left.t = "str" /\ right.t = "str" THEN ret(StrV(l \o r))
              ELSE ret(Nil)
         [] op = "-" -> IF lok /\ rok THEN ret(IntV(l - r)) ELSE ret(Nil)
         [] op = "*" -> IF lok /\ rok THEN ret(IntV(l * r)) ELSE ret(Nil)
         [] op = "/" ->
              IF lok /\ rok
              THEN IF r = 0 THEN [st |-> Panic(st), val |-> Nil] ELSE ret(IntV(GoDiv(l, r)))
              ELSE ret(Nil)
         [] op = "%" ->
              IF lok /\ rok
              THEN IF r = 0 THEN [st |-> Panic(st), val |-> Nil] ELSE ret(IntV(GoMod(l, r)))
              ELSE ret(Nil)
         [] op = "EQ" ->
              IF GoEqPanics(left, right) THEN [st |-> Panic(st), val |-> Nil]
              ELSE ret(BoolV(GoEq(left, right)))
         [] op = "NEQ" ->
              IF GoEqPanics(left, right) THEN [st |-> Panic(st), val |-> Nil]
              ELSE ret(BoolV(~GoEq(left, right)))
         [] op = "LT" -> IF lok /\ rok THEN ret(BoolV(l < r)) ELSE ret(Nil)
         [] op = "LTE" -> IF lok /\ rok THEN ret(BoolV(l <= r)) ELSE ret(Nil)
         [] op = "GT" -> IF lok /\ rok THEN ret(BoolV(l > r)) ELSE ret(Nil)
         [] op = "GTE" -> IF lok /\ rok THEN ret(BoolV(l >= r)) ELSE ret(Nil)
         [] op = "AND" -> ret(BoolV(isTruthy(left) /\ isTruthy(right)))
         [] op = "OR" -> ret(BoolV(isTruthy(left) \/ isTruthy(right)))
         [] op = "NOT" -> ret(BoolV(~isTruthy(right)))
         [] OTHER -> ret(Nil)

evalUnary(op, right) ==
    CASE op = "-" -> IF right.t = "int" THEN IntV(-right.v) ELSE Nil
      [] op = "NOT" -> BoolV(~isTruthy(right))
      [] OTHER -> Nil

\* an index out of range read as the index 0
evalIndexWrapped(st, arr, idx) ==
    IF arr.t = "arr" /\ ArrLen(arr) > 0
    THEN [st |-> st, val |-> ArrElems(st, arr)[1]]
    ELSE [st |-> st, val |-> Nil]

evalIndex(st, arr, idx) ==
    CASE arr.t = "arr" ->
           [st |-> st,
            val |-> IF idx.t = "int" /\ idx.v >= 0 /\ idx.v < ArrLen(arr)
                    THEN ArrElems(st, arr)[idx.v + 1] ELSE Nil]
      [] arr.t = "struct" ->
           [st |-> st,
            val |-> IF idx.t = "str" /\ <<idx.v>> \in DOMAIN st.heap[arr.v].cells
                    THEN st.heap[arr.v].cells[<<idx.v>>] ELSE Nil]
      [] arr.t = "map" ->
           IF Hashable(idx) THEN [st |-> st, val |-> MapLoad(st, arr.v, idx)]
           ELSE [st |-> Panic(st), val |-> Nil]
      [] OTHER -> [st |-> st, val |-> Nil]

\* evalSliceCopied: the elements start..end-1 are copied to a new backing
\* array instead of being shared with arrSlice
evalSliceCopied(st, arr, hasStart, sv, hasEnd, ev) ==
    LET len == ArrLen(arr)
        start0 == IF hasStart /\ sv.t = "int" THEN sv.v ELSE 0
        end0 == IF hasEnd THEN (IF ev.t = "int" THEN ev.v ELSE 0) ELSE len
        start1 == IF start0 < 0 THEN 0 ELSE start0
        end1 == IF end0 > len THEN len ELSE end0
        start2 == IF start1 > end1 THEN end1 ELSE start1
        s1 == Alloc(st, [k |-> "back", cells |-> SubSeq(ArrElems(st, arr), start2 + 1, end1)])
    IN [st |-> s1, val |-> ArrV(LastAddr(s1), 0, end1 - start2)]

\* arrSlice[start:end] after the clamping of the bounds; hasStart/hasEnd say
\* whether the bound is written, sv/ev are the evaluated bounds
evalSlice(st, arr, hasStart, sv, hasEnd, ev) ==
    LET len == ArrLen(arr)
        cap == Len(st.heap[arr.v[1]].cells) - arr.v[2]
        start0 == IF hasStart /\ sv.t = "int" THEN sv.v ELSE 0
        end0 == IF hasEnd THEN (IF ev.t = "int" THEN ev.v ELSE 0) ELSE len
        start1 == IF start0 < 0 THEN 0 ELSE start0
        end1 == IF end0 > len THEN len ELSE end0
        start2 == IF start1 > end1 THEN end1 ELSE start1
    IN IF start2 < 0 \/ end1 > cap \/ start2 > end1
       THEN [st |-> Panic(st), val |-> Nil]
       ELSE [st |-> st, val |-> ArrV(arr.v[1], arr.v[2] + start2, end1 - start2)]


\* the arguments of a call, an array literal's elements: left to right
evalExprsImpl(exprs, env, st) ==
    IF Len(exprs) = 0 THEN [st |-> st, vals |-> <<>>]
    ELSE LET h == evalExpr(exprs[1], env, st)
             t == evalExprs(Tail(exprs), env, h.st)
         IN [st |-> t.st, vals |-> <<h.val>> \o t.vals]

\* obj[key] = evalExpr(exp, env) for the fields of a struct literal
evalFieldsImpl(fields, env, st) ==
    IF Len(fields) = 0 THEN [st |-> st, cells |-> EmptyStore]
    ELSE LET h == evalExpr(fields[1][2], env, st)
             t == evalFields(Tail(fields), env, h.st)
         IN [st |-> t.st, cells |-> t.cells @@ (<<fields[1][1]>> :> h.val)]

\* m[key] = val for the pairs of a map literal
evalPairsImpl(pairs, env, st, addr) ==
    IF Len(pairs) = 0 THEN st
    ELSE LET key == evalExpr(pairs[1][1], env, st)
             val == evalExpr(pairs[1][2], env, key.st)
         IN IF ~Hashable(key.val) THEN Panic(val.st)
            ELSE evalPairs(Tail(pairs), env, MapStore(val.st, addr, key.val, val.val), addr)

\* localEnv.Set(param, args[i]) for every parameter that has an argument
RECURSIVE BindParams(_, _, _, _, _)
BindParams(st, env, params, args, i) ==
    IF i > Len(params) THEN st
    ELSE BindParams(IF i <= Len(args) THEN Set(st, env, params[i], args[i]) ELSE st,
                    env, params, args, i + 1)

\* the arguments a method body is entered with
MethodArgsNoReceiver(baseVal, args) == args

MethodArgs(baseVal, args) == <<baseVal>> \o args

\* the struct method a dotted callee denotes: [ok, fn, base]
MethodTarget(st, env, name) ==
    LET baseName == <<name[1]>>
        methodName == Tail(name)
        base == Get(st.frames, env, baseName)
        obj == st.heap[base.val.v].cells
        structType == IF <<"_struct">> \in DOMAIN obj /\ obj[<<"_struct">>].t = "str"
                      THEN obj[<<"_struct">>].v ELSE ""
        fnObj == Get(st.frames, env, <<structType>> \o methodName)
    IN IF Len(name) > 1 /\ base.ok /\ base.val.t = "struct" /\ fnObj.ok /\ fnObj.val.t = "fn"
       THEN [ok |-> TRUE, fn |-> fnObj.val.v, base |-> base.val]
       ELSE [ok |-> FALSE, fn |-> NoStmt, base |-> Nil]

\* a method call: the receiver is the first argument and is bound to this
callMethod(v, env, st, target) ==
    LET a == evalExprs(v.Arguments, env, st)
        args == MethodArgs(target.base, a.vals)
        s1 == NewEnclosedEnvironment(Tick(a.st), getGlobalEnv(a.st.frames, env))
        localEnv == LastEnv(s1)
        s2 == Set(s1, localEnv, <<"this">>, target.base)
        s3 == BindParams(s2, localEnv, target.fn.Params, args, 1)
    IN evalFunctionBody(target.fn.Body, localEnv, s3)

\* a call of a user-defined function
callFunction(v, env, st) ==
    LET fnObj == Get(st.frames, env, v.Function.Value)
    IN IF ~fnObj.ok \/ fnObj.val.t # "fn" THEN [st |-> st, val |-> Nil]
       ELSE LET a == evalExprs(v.Arguments, env, st)
                s1 == NewEnclosedEnvironment(Tick(a.st), getGlobalEnv(a.st.frames, env))
                localEnv == LastEnv(s1)
                s2 == BindParams(s1, localEnv, fnObj.val.v.Params, a.vals, 1)
            IN evalFunctionBody(fnObj.val.v.Body, localEnv, s2)

evalCall(v, env, st) ==
    IF v.Function.k # "ident" THEN [st |-> st, val |-> Nil]
    ELSE LET name == v.Function.Value
             target == MethodTarget(st, env, name)
         IN IF name \in BuiltinNames
            THEN LET a == evalExprs(v.Arguments, env, st)
                 IN CallBuiltin(a.st, name, a.vals)
            ELSE IF target.ok THEN callMethod(v, env, st, target)
            ELSE IF name = <<"len">> /\ Len(v.Arguments) = 1
            THEN LET a == evalExpr(v.Arguments[1], env, st)
                 IN [st |-> a.st,
                     val |-> IF a.val.t = "arr" THEN IntV(ArrLen(a.val)) ELSE IntV(0)]
            ELSE IF name = <<"input">> /\ Len(v.Arguments) <= 1
            \* stdin is closed: ReadString yields the empty text
            THEN IF Len(v.Arguments) = 1
                 THEN LET a == evalExpr(v.Arguments[1], env, st)
                      IN [st |-> IF a.val.t = "str" THEN WriteLine(a.st, a.val.v) ELSE a.st,
                          val |-> StrV("")]
                 ELSE [st |-> st, val |-> StrV("")]
            ELSE callFunction(v, env, st)

evalExprImpl(expr, env, st) ==
    IF ~Running(st) THEN [st |-> st, val |-> Nil]
    ELSE CASE expr.k = "str" ->
                [st |-> st, val |-> StrV(interpolateString(st, env, expr.Value))]
           [] expr.k = "int" -> [st |-> st, val |-> IntV(expr.Value)]
           [] expr.k = "bool" -> [st |-> st, val |-> BoolV(expr.Value)]
           [] expr.k = "ident" -> [st |-> st, val |-> evalIdentifier(st, env, expr.Value)]
           [] expr.k = "bin" ->
                LET left == evalExpr(expr.Left, env, st)
                    right == evalExpr(expr.Right, env, left.st)
                IN evalBinary(right.st, expr.Operator, left.val, right.val)
           [] expr.k = "call" -> evalCall(expr, env, st)
           [] expr.k = "un" ->
                LET right == evalExpr(expr.Right, env, st)
                IN [st |-> right.st, val |-> evalUnary(expr.Operator, right.val)]
           [] expr.k = "array" ->
                LET els == evalExprs(expr.Elements, env, st)
                    s1 == Alloc(els.st, [k |-> "back", cells |-> els.vals])
                IN [st |-> s1, val |-> ArrV(LastAddr(s1), 0, Len(els.vals))]
           [] expr.k = "index" ->
                LET arr == evalExpr(expr.Left, env, st)
                    idx == evalExpr(expr.Index, env, arr.st)
                IN evalIndex(idx.st, arr.val, idx.val)
           [] expr.k = "slice" ->
                LET arr == evalExpr(expr.Left, env, st)
                    hasStart == expr.Start.k # "none"
                    hasEnd == expr.End.k # "none"
                    sv == IF hasStart THEN evalExpr(expr.Start, env, arr.st)
                          ELSE [st |-> arr.st, val |-> Nil]
                    ev == IF hasEnd THEN evalExpr(expr.End, env, sv.st)
                          ELSE [st |-> sv.st, val |-> Nil]
                IN IF arr.val.t # "arr" THEN [st |-> arr.st, val |-> Nil]
                   ELSE IF ~Running(ev.st) THEN [st |-> ev.st, val |-> Nil]
                   ELSE evalSlice(ev.st, arr.val, hasStart, sv.val, hasEnd, ev.val)
           [] expr.k = "structlit" ->
                LET f == evalFields(expr.Fields, env, st)
                    s1 == Alloc(f.st, [k |-> "smap",
                                       cells |-> (<<"_struct">> :> StrV(expr.StructName)) @@ f.cells])
                IN [st |-> s1, val |-> StructV(LastAddr(s1))]
           [] expr.k = "maplit" ->
                LET s1 == Alloc(st, [k |-> "imap", cells |-> <<>>])
                    addr == LastAddr(s1)
                IN [st |-> evalPairs(expr.Pairs, env, s1, addr), val |-> MapV(addr)]
           [] OTHER -> [st |-> st, val |-> Nil]

(***************************************************************************)
(* Eval, by statement kind.  EvalStmt is one round of Eval's loop over the *)
(* statements: ret says that Eval returns val from inside the loop.        *)
(***************************************************************************)
evalFunctionBodyPassSignal(stmts, env, st) ==
    IF Len(stmts) = 0 \/ ~Running(st) THEN [st |-> st, val |-> Nil]
    ELSE IF stmts[1].k = "return" THEN evalExpr(stmts[1].Value, env, st)
    ELSE LET r == Eval(<<stmts[1]>>, env, st)
         IN IF IsSignal(r.val) THEN r
            ELSE evalFunctionBody(Tail(stmts), env, r.st)

evalFunctionBodyImpl(stmts, env, st) ==
    IF Len(stmts) = 0 \/ ~Running(st) THEN [st |-> st, val |-> Nil]
    ELSE IF stmts[1].k = "return" THEN evalExpr(stmts[1].Value, env, st)
    ELSE evalFunctionBody(Tail(stmts), env, Eval(<<stmts[1]>>, env, st).st)

\* the elif branches from the i-th on, then the else branch
evalElifsImpl(stmt, i, env, st) ==
    IF i > Len(stmt.ElifConds)
    THEN IF Len(stmt.ElseBody) > 0 THEN Eval(stmt.ElseBody, env, st).st ELSE st
    ELSE LET c == evalExpr(stmt.ElifConds[i], env, st)
         IN IF isTruthy(c.val) THEN Eval(stmt.ElifBodies[i], env, c.st).st
            ELSE evalElifs(stmt, i + 1, env, c.st)

evalIf(stmt, env, st) ==
    LET c == evalExpr(stmt.IfCond, env, st)
    IN IF isTruthy(c.val) THEN Eval(stmt.IfBody, env, c.st).st
       ELSE evalElifs(stmt, 1, env, c.st)

whileLoopImpl(stmt, env, st) ==
    IF ~Running(st) THEN st
    ELSE LET c == evalExpr(stmt.Condition, env, st)
             res == Eval(stmt.Body, env, Tick(c.st))
         IN IF ~isTruthy(c.val) THEN c.st
            ELSE IF res.val.t = "break" THEN res.st
            ELSE whileLoop(stmt, env, res.st)

\* Eval([]ast.Statement{stmt.Post}, forEnv) when there is a Post (evalPostLeft:
\* the post statement is left out)
evalPostLeft(stmt, forEnv, st) == st

evalPost(stmt, forEnv, st) ==
    IF stmt.Post.k # "nostmt" THEN Eval(<<stmt.Post>>, forEnv, st).st ELSE st

forLoopImpl(stmt, forEnv, st) ==
    IF ~Running(st) THEN st
    ELSE LET c == evalExpr(stmt.Condition, forEnv, st)
             res == Eval(stmt.Body, forEnv, Tick(c.st))
         IN IF ~isTruthy(c.val) THEN c.st
            ELSE IF res.val.t = "break" THEN res.st
            ELSE forLoop(stmt, forEnv, evalPost(stmt, forEnv, res.st))

evalFor(stmt, env, st) ==
    LET s1 == NewEnclosedEnvironment(st, env)
        forEnv == LastEnv(s1)
        s2 == IF stmt.Init.k # "nostmt" THEN Eval(<<stmt.Init>>, forEnv, s1).st ELSE s1
    IN forLoop(stmt, forEnv, s2)

\* u.name >> value
assignField(stmt, env, st) ==
    LET baseName == <<stmt.Left.Value[1]>>
        fieldName == Tail(stmt.Left.Value)
        base == Get(st.frames, env, baseName)
        val == evalExpr(stmt.Value, env, st)
    IN IF ~base.ok \/ base.val.t = "nil"
       THEN WriteLine(st, ErrNotExist(baseName).v)
       ELSE IF base.val.t = "struct"
            THEN Set(FieldStore(val.st, base.val.v, fieldName, val.val),
                     env, baseName, base.val)
            ELSE WriteLine(st, ErrNotStruct(baseName).v)

\* xs[i] >> value, m[k] >> value
assignIndex(stmt, env, st) ==
    LET coll == evalExpr(stmt.Left.Left, env, st)
        idx == evalExpr(stmt.Left.Index, env, coll.st)
        val == evalExpr(stmt.Value, env, idx.st)
    IN CASE coll.val.t = "arr" ->
              IF idx.val.t = "int" /\ idx.val.v >= 0 /\ idx.val.v < ArrLen(coll.val)
              THEN ArrayStore(val.st, coll.val, idx.val.v, val.val)
              ELSE val.st
         [] coll.val.t = "map" ->
              IF Hashable(idx.val) THEN MapStore(val.st, coll.val.v, idx.val, val.val)
              ELSE Panic(val.st)
         [] OTHER -> val.st

\* x >> value
assignIdent(stmt, env, st) ==
    LET val == evalExpr(stmt.Value, env, st)
        r == SetExisting(val.st, env, stmt.Left.Value, val.val)
    IN IF r.ok THEN r.st ELSE Set(val.st, env, stmt.Left.Value, val.val)

evalAssignment(stmt, env, st) ==
    IF stmt.Left.k = "ident" /\ Len(stmt.Left.Value) > 1 THEN assignField(stmt, env, st)
    ELSE IF stmt.Left.k = "index" THEN assignIndex(stmt, env, st)
    ELSE IF stmt.Left.k = "ident" THEN assignIdent(stmt, env, st)
    ELSE st

EvalStmtImpl(stmt, env, st) ==
    LET next(s) == [st |-> s, ret |-> FALSE, val |-> Nil]
    IN CASE stmt.k = "let" ->
              LET val == evalExpr(stmt.Value, env, st)
              IN next(Set(val.st, env, stmt.Name, val.val))
         [] stmt.k = "fn" -> next(Set(st, env, stmt.Name, FnV(stmt)))
         [] stmt.k = "log" ->
              LET val == evalExpr(stmt.Value, env, st)
              IN next(printValue(val.st, val.val))
         [] stmt.k = "expr" -> next(evalExpr(stmt.Expr, env, st).st)
         [] stmt.k = "if" -> next(evalIf(stmt, env, st))
         [] stmt.k = "assign" -> next(evalAssignment(stmt, env, st))
         [] stmt.k = "break" -> [st |-> st, ret |-> TRUE, val |-> breakSignal]
         [] stmt.k = "continue" -> [st |-> st, ret |-> TRUE, val |-> continueSignal]
         [] stmt.k = "while" -> next(whileLoop(stmt, env, st))
         [] stmt.k = "for" -> next(evalFor(stmt, env, st))
         [] stmt.k = "cimport" ->
              next(WriteLine(st, "[CIMPORT] Would import C header: " \o stmt.Header))
         [] OTHER -> next(st)


EvalImpl(stmts, env, st) ==
    IF Len(stmts) = 0 \/ ~Running(st) THEN [st |-> st, val |-> Nil]
    ELSE LET r == EvalStmt(stmts[1], env, st)
         IN IF r.ret THEN [st |-> r.st, val |-> r.val]
            ELSE Eval(Tail(stmts), env, r.st)

Ev(f, x, env, st) ==
    CASE f = "evalExpr" -> evalExprImpl(x, env, st)
      [] f = "evalExprs" -> evalExprsImpl(x, env, st)
      [] f = "evalFields" -> evalFieldsImpl(x, env, st)
      [] f = "evalPairs" -> evalPairsImpl(x[1], env, st, x[2])
      [] f = "Eval" -> EvalImpl(x, env, st)
      [] f = "EvalStmt" -> EvalStmtImpl(x, env, st)
      [] f = "evalElifs" -> evalElifsImpl(x[1], x[2], env, st)
      [] f = "whileLoop" -> whileLoopImpl(x, env, st)
      [] f = "forLoop" -> forLoopImpl(x, env, st)
      [] f = "evalFunctionBody" -> evalFunctionBodyImpl(x, env, st)

(***************************************************************************)
(* The type checker (typechecker.go).  A type is the sequence of the       *)
(* tokens of its text: "int" is <<"int">>, "int[]" is <<"int","[","]">>,   *)
(* "map[string]int" is <<"map","[","string","]","int">> and "" is <<>>.    *)
(***************************************************************************)
NoType == <<>>
TInt == <<"int">>
TString == <<"string">>
TBool == <<"bool">>
TVoid == <<"void">>
TAny == <<"any">>
ArrayOf(t) == t \o <<"[", "]">>
MapOf(k, v) == <<"map", "[">> \o k \o <<"]">> \o v
StructType(name) == <<name>>
TypeText(t) == Join(t, "")

\* strings.HasSuffix(t, "[]")
HasArraySuffix(t) == Len(t) >= 2 /\ t[Len(t) - 1] = "[" /\ t[Len(t)] = "]"
\* len(t) > 2 && t[len(t)-2:] == "[]"
IsArrayType(t) == Len(t) > 2 /\ HasArraySuffix(t)
\* t[:len(t)-2]
ElemType(t) == SubSeq(t, 1, Len(t) - 2)
\* strings.HasPrefix(t, "map[")
HasMapPrefix(t) == Len(t) >= 2 /\ t[1] = "map" /\ t[2] = "["
\* strings.Index(t, "]"), counted in tokens from 1; 0 when there is none
RECURSIVE CloseBracket(_, _)
CloseBracket(t, i) ==
    IF i > Len(t) THEN 0
    ELSE IF t[i] = "]" THEN i
    ELSE CloseBracket(t, i + 1)
\* t[4:closeBracket] and t[closeBracket+1:]
MapKeyType(t) == SubSeq(t, 3, CloseBracket(t, 1) - 1)
MapValueType(t) == SubSeq(t, CloseBracket(t, 1) + 1, Len(t))

GoBuiltins ==
    (<<"go", "println">> :> TVoid) @@ (<<"go", "printf">> :> TVoid)
    @@ (<<"go", "time", "now">> :> TString) @@ (<<"go", "time", "sleep">> :> TVoid)
    @@ (<<"go", "file", "open">> :> TInt) @@ (<<"go", "file", "close">> :> TVoid)
    @@ (<<"go", "file", "read">> :> TString) @@ (<<"go", "file", "write">> :> TBool)
    @@ (<<"go", "file", "create">> :> TInt) @@ (<<"go", "file", "remove">> :> TBool)
    @@ (<<"go", "dir", "create">> :> TBool) @@ (<<"go", "dir", "remove">> :> TBool)
    @@ (<<"go", "dir", "removeAll">> :> TBool) @@ (<<"go", "path", "exists">> :> TBool)
    @@ (<<"go", "file", "stat">> :> MapOf(TString, TAny))
    @@ (<<"go", "file", "readline">> :> TString)
    @@ (<<"go", "strings", "split">> :> ArrayOf(TString))
    @@ (<<"go", "strings", "trim">> :> TString)
    @@ (<<"go", "strings", "toLower">> :> TString)
    @@ (<<"go", "strings", "toUpper">> :> TString)
    @@ (<<"go", "bytes", "make">> :> ArrayOf(TInt)) @@ (<<"go", "bytes", "copy">> :> TInt)
    @@ (<<"go", "bytes", "cap">> :> TInt)

\* the name  baseType + "." + methodName
MethodFullName(baseType, methodName) == <<TypeText(baseType)>> \o methodName

\* structDefs[baseType]: is there a definition, and the type of its field
HasStructDef(structDefs, t) == Len(t) = 1 /\ t[1] \in DOMAIN structDefs
RECURSIVE FieldIndex(_, _, _)
FieldIndex(fields, fieldName, i) ==
    IF i > Len(fields) THEN 0
    ELSE IF <<fields[i][1]>> = fieldName THEN i
    ELSE FieldIndex(fields, fieldName, i + 1)

\* Every recursive call of the type checker goes through Tc, which
\* dispatches on the function's name to the definition of its body.
RECURSIVE Tc(_, _)
inferExprType(expr, funcTypes, varTypes, structDefs) ==
    Tc("inferExprType", [expr |-> expr, funcTypes |-> funcTypes, varTypes |-> varTypes,
                         structDefs |-> structDefs])
checkWithReturnType(stmts, currentReturnType, funcDefs, varTypes, structDefs, inLoop) ==
    Tc("checkWithReturnType",
       [stmts |-> stmts, currentReturnType |-> currentReturnType, funcDefs |-> funcDefs,
        varTypes |-> varTypes, structDefs |-> structDefs, inLoop |-> inLoop])
checkFrom(stmts, i, currentReturnType, funcDefs, varTypes, structDefs, inLoop) ==
    Tc("checkFrom",
       [stmts |-> stmts, i |-> i, currentReturnType |-> currentReturnType,
        funcDefs |-> funcDefs, varTypes |-> varTypes, structDefs |-> structDefs,
        inLoop |-> inLoop])

\* funcTypes[name] is funcDefs[name].ReturnType: the two maps are always
\* written together (lines 189-190, 217-218)
inferIdentifier(name, varTypes, structDefs) ==
    LET baseName == <<name[1]>>
        fieldName == Tail(name)
    IN IF name \in DOMAIN varTypes THEN varTypes[name]
       ELSE IF Len(name) <= 1 THEN NoType
       ELSE IF /\ baseName \in DOMAIN varTypes
               /\ HasStructDef(structDefs, varTypes[baseName])
               /\ FieldIndex(structDefs[varTypes[baseName][1]].Fields, fieldName, 1) # 0
       THEN structDefs[varTypes[baseName][1]].Fields[
                FieldIndex(structDefs[varTypes[baseName][1]].Fields, fieldName, 1)][2]
       ELSE IF fieldName \in DOMAIN varTypes THEN varTypes[fieldName]
       ELSE NoType

inferBinary(op, leftType, rightType) ==
    CASE op \in {"EQ", "NEQ", "LT", "LTE", "GT", "GTE", "AND", "OR"} -> TBool
      [] op = "+" ->
           IF leftType = TString /\ rightType = TString THEN TString
           ELSE IF leftType = TInt /\ rightType = TInt THEN TInt
           ELSE NoType
      [] op \in {"-", "*", "/", "%"} ->
           IF leftType = TInt /\ rightType = TInt THEN TInt ELSE NoType
      [] OTHER -> NoType

inferCall(v, funcTypes, varTypes) ==
    LET name == v.Function.Value
        baseName == <<name[1]>>
        methodFullName == MethodFullName(varTypes[baseName], Tail(name))
    IN IF v.Function.k # "ident" THEN NoType
       ELSE IF name \in DOMAIN GoBuiltins THEN GoBuiltins[name]
       ELSE IF Len(name) > 1 /\ baseName \in DOMAIN varTypes
               /\ methodFullName \in DOMAIN funcTypes
       THEN funcTypes[methodFullName].ReturnType
       ELSE IF name \in DOMAIN funcTypes THEN funcTypes[name].ReturnType
       ELSE IF name = <<"len">> THEN TInt
       ELSE IF name = <<"input">> THEN TString
       ELSE NoType

inferIndex(leftType) ==
    IF IsArrayType(leftType) THEN ElemType(leftType)
    ELSE IF /\ HasMapPrefix(leftType)
            /\ CloseBracket(leftType, 1) # 0
            /\ CloseBracket(leftType, 1) < Len(leftType)
    THEN MapValueType(leftType)
    ELSE NoType

inferExprTypeImpl(expr, funcTypes, varTypes, structDefs) ==
    CASE expr.k = "str" -> TString
      [] expr.k = "int" -> TInt
      [] expr.k = "bool" -> TBool
      [] expr.k = "ident" -> inferIdentifier(expr.Value, varTypes, structDefs)
      [] expr.k = "bin" ->
           inferBinary(expr.Operator,
                       inferExprType(expr.Left, funcTypes, varTypes, structDefs),
                       inferExprType(expr.Right, funcTypes, varTypes, structDefs))
      [] expr.k = "call" -> inferCall(expr, funcTypes, varTypes)
      [] expr.k = "un" ->
           (CASE expr.Operator = "-" -> TInt
              [] expr.Operator = "NOT" -> TBool
              [] OTHER -> NoType)
      [] expr.k = "array" ->
           IF Len(expr.Elements) = 0 THEN ArrayOf(<<"unknown">>)
           ELSE IF \A i \in 2..Len(expr.Elements) :
                      inferExprType(expr.Elements[i], funcTypes, varTypes, structDefs)
                      = inferExprType(expr.Elements[1], funcTypes, varTypes, structDefs)
           THEN ArrayOf(inferExprType(expr.Elements[1], funcTypes, varTypes, structDefs))
           ELSE NoType
      [] expr.k = "index" ->
           inferIndex(inferExprType(expr.Left, funcTypes, varTypes, structDefs))
      [] expr.k = "slice" ->
           IF IsArrayType(inferExprType(expr.Left, funcTypes, varTypes, structDefs))
           THEN inferExprType(expr.Left, funcTypes, varTypes, structDefs)
           ELSE NoType
      [] expr.k = "structlit" -> StructType(expr.StructName)
      [] expr.k = "maplit" -> MapOf(expr.KeyType, expr.ValueType)
      [] OTHER -> NoType

\* the texts of the errors (without the position)
RECURSIVE Concat(_)
Concat(seqs) == IF Len(seqs) = 0 THEN <<>> ELSE seqs[1] \o Concat(Tail(seqs))
ErrIf(cond, text) == IF cond THEN <<text>> ELSE <<>>
TypeErrorPanic == "panic: runtime error: index out of range"

\* checkCallExpr: the errors of a call that is a statement
checkMethodArgs(fn, methodFullName, args, funcTypes, varTypes, structDefs) ==
    IF Len(args) # Len(fn.Params)
    THEN <<"Method '" \o NameText(methodFullName) \o "' expects "
           \o ToString(Len(fn.Params)) \o " arguments, got " \o ToString(Len(args))>>
    ELSE Concat([i \in 1..Len(args) |->
                    ErrIf(inferExprType(args[i], funcTypes, varTypes, structDefs)
                              # fn.ParamTypes[i],
                          "Type error: argument " \o ToString(i) \o " to '"
                              \o NameText(methodFullName) \o "'")])

checkFunctionArgs(fn, name, args, funcTypes, varTypes, structDefs) ==
    IF Len(args) # Len(fn.Params)
    THEN <<"Function '" \o NameText(name) \o "' expects "
           \o ToString(Len(fn.Params)) \o " arguments, got " \o ToString(Len(args))>>
    ELSE Concat([i \in 1..Len(args) |->
                    ErrIf(inferExprType(args[i], funcTypes, varTypes, structDefs)
                              # fn.ParamTypes[i],
                          "Type error: argument " \o ToString(i) \o " to '"
                              \o NameText(name) \o "'")])

checkLenCall(call, funcTypes, varTypes, structDefs) ==
    ErrIf(Len(call.Arguments) # 1, "Built-in 'len' expects 1 argument")
    \o (IF Len(call.Arguments) = 0 THEN <<TypeErrorPanic>>
        ELSE ErrIf(~IsArrayType(inferExprType(call.Arguments[1], funcTypes, varTypes,
                                              structDefs)),
                   "Built-in 'len' expects an array argument"))

checkInputCall(call, funcTypes, varTypes, structDefs) ==
    ErrIf(Len(call.Arguments) > 1, "Built-in 'input' expects 0 or 1 argument")
    \o (IF Len(call.Arguments) = 1
        THEN ErrIf(inferExprType(call.Arguments[1], funcTypes, varTypes, structDefs)
                       # TString,
                   "Built-in 'input' expects a string argument")
        ELSE <<>>)

checkCallExpr(call, funcDefs, funcTypes, varTypes, structDefs) ==
    LET name == call.Function.Value
        baseName == <<name[1]>>
        methodFullName == MethodFullName(varTypes[baseName], Tail(name))
    IN IF call.Function.k # "ident" THEN <<>>
       ELSE IF name \in DOMAIN GoBuiltins THEN <<>>
       ELSE IF Len(name) > 1 /\ baseName \in DOMAIN varTypes
               /\ methodFullName \in DOMAIN funcDefs
       THEN checkMethodArgs(funcDefs[methodFullName], methodFullName,
                            <<Identifier(baseName)>> \o call.Arguments,
                            funcTypes, varTypes, structDefs)
       ELSE IF name = <<"len">> THEN checkLenCall(call, funcTypes, varTypes, structDefs)
       ELSE IF name = <<"input">> THEN checkInputCall(call, funcTypes, varTypes, structDefs)
       ELSE IF name \notin DOMAIN funcDefs
       THEN <<"Unknown function '" \o NameText(name) \o "'">>
       ELSE checkFunctionArgs(funcDefs[name], name, call.Arguments,
                              funcTypes, varTypes, structDefs)

\* funcTypes[fn.Name] = fn.ReturnType; funcDefs[fn.Name] = fn, for the
\* function statements of a list
RECURSIVE RegisterFunctions(_, _)
RegisterFunctions(stmts, funcDefs) ==
    IF Len(stmts) = 0 THEN funcDefs
    ELSE RegisterFunctions(Tail(stmts),
                           IF stmts[1].k = "fn" THEN (stmts[1].Name :> stmts[1]) @@ funcDefs
                           ELSE funcDefs)

\* what checking a statement leaves: the maps it has written and its errors
Checked(funcDefs, varTypes, errs) ==
    [funcDefs |-> funcDefs, varTypes |-> varTypes, errs |-> errs]
\* the result r of checking a nested scope, seen from the enclosing one
AfterScope(r, varTypes, errs) == Checked(r.funcDefs, varTypes, errs \o r.errs)
WithErrs(errs, r) == [r EXCEPT !.errs = errs \o @]

letTypeErrs(stmt, valType) ==
    ErrIf(valType = NoType,
          "initialization of variable '" \o NameText(stmt.Name)
              \o "' uses an undeclared or non-public variable")
    \o (IF stmt.Type = TAny
        THEN ErrIf(IsArrayType(valType), "Type error: cannot assign array type to any")
        ELSE IF stmt.Type = ArrayOf(TAny)
        THEN ErrIf(~IsArrayType(valType), "Type error: cannot assign non-array type to any[]")
        ELSE ErrIf(valType # stmt.Type,
                   "Type error: cannot assign " \o TypeText(valType) \o " to "
                       \o TypeText(stmt.Type) \o " (variable '" \o NameText(stmt.Name) \o "')"))

letMapErrs(stmt, funcTypes, varTypes, structDefs) ==
    IF stmt.Value.k # "maplit" THEN <<>>
    ELSE ErrIf(stmt.Type # MapOf(stmt.Value.KeyType, stmt.Value.ValueType),
               "Type error: cannot assign map literal to " \o TypeText(stmt.Type))
         \o Concat([i \in 1..Len(stmt.Value.Pairs) |->
                ErrIf(inferExprType(stmt.Value.Pairs[i][1], funcTypes, varTypes, structDefs)
                          # stmt.Value.KeyType, "Map key type error")
                \o ErrIf(inferExprType(stmt.Value.Pairs[i][2], funcTypes, varTypes, structDefs)
                             # stmt.Value.ValueType, "Map value type error")])

letStructErrs(stmt, structDefs) ==
    IF stmt.Value.k # "structlit" \/ stmt.Value.StructName \notin DOMAIN structDefs
    THEN <<>>
    ELSE Concat([i \in 1..Len(structDefs[stmt.Value.StructName].Fields) |->
                    ErrIf(\A j \in 1..Len(stmt.Value.Fields) :
                              stmt.Value.Fields[j][1]
                              # structDefs[stmt.Value.StructName].Fields[i][1],
                          "Missing field '"
                              \o structDefs[stmt.Value.StructName].Fields[i][1] \o "'")])
         \o Concat([j \in 1..Len(stmt.Value.Fields) |->
                    ErrIf(FieldIndex(structDefs[stmt.Value.StructName].Fields,
                                     <<stmt.Value.Fields[j][1]>>, 1) = 0,
                          "Unknown field '" \o stmt.Value.Fields[j][1] \o "'")])

checkLet(stmt, funcDefs, varTypes, structDefs) ==
    Checked(funcDefs, (stmt.Name :> stmt.Type) @@ varTypes,
            letTypeErrs(stmt, inferExprType(stmt.Value, funcDefs, varTypes, structDefs))
            \o letMapErrs(stmt, funcDefs, (stmt.Name :> stmt.Type) @@ varTypes, structDefs)
            \o letStructErrs(stmt, structDefs))

checkExpressionStatement(stmt, funcDefs, varTypes, structDefs) ==
    (IF stmt.Expr.k = "call"
     THEN checkCallExpr(stmt.Expr, funcDefs, funcDefs, varTypes, structDefs)
     ELSE <<>>)
    \o ErrIf(inferExprType(stmt.Expr, funcDefs, varTypes, structDefs) = NoType,
             "expression uses an undeclared or non-public variable")

checkLog(stmt, funcDefs, varTypes, structDefs) ==
    ErrIf(inferExprType(stmt.Value, funcDefs, varTypes, structDefs) = NoType,
          "log expression uses an undeclared or non-public variable")

\* funcVarTypes: a copy of varTypes with the parameters written over it
RECURSIVE funcVarTypes(_, _, _)
funcVarTypes(varTypes, stmt, i) ==
    IF i > Len(stmt.Params) THEN varTypes
    ELSE funcVarTypes((stmt.Params[i] :> stmt.ParamTypes[i]) @@ varTypes, stmt, i + 1)

checkFunction(stmt, funcDefs, varTypes, structDefs) ==
    AfterScope(checkWithReturnType(stmt.Body, stmt.ReturnType, funcDefs,
                                   funcVarTypes(varTypes, stmt, 1), structDefs, FALSE),
               varTypes,
               ErrIf(stmt.ReturnType \notin {TInt, TString, TBool, TVoid}
                         /\ ~HasStructDef(structDefs, stmt.ReturnType),
                     "Unknown return type '" \o TypeText(stmt.ReturnType)
                         \o "' for function '" \o NameText(stmt.Name) \o "'"))

checkReturn(stmt, currentReturnType, funcDefs, varTypes, structDefs) ==
    IF currentReturnType = TVoid
    THEN ErrIf(stmt.Value.k \notin {"none", "nil"},
               "Cannot return a value from a void function")
    ELSE IF stmt.Value.k = "none" THEN <<"Must return a value from non-void function">>
    ELSE ErrIf(inferExprType(stmt.Value, funcDefs, varTypes, structDefs) # currentReturnType,
               "Return type mismatch: expected " \o TypeText(currentReturnType))

assignIndexErrs(collectionType, indexType, valType) ==
    IF HasArraySuffix(collectionType)
    THEN ErrIf(indexType # TInt, "Array index must be int")
         \o ErrIf(valType # ElemType(collectionType),
                  "Type error: cannot assign to array element")
    ELSE IF HasMapPrefix(collectionType)
    THEN IF CloseBracket(collectionType, 1) = 0 THEN <<"Malformed map type">>
         ELSE ErrIf(indexType # MapKeyType(collectionType), "Map key type error")
              \o ErrIf(valType # MapValueType(collectionType),
                       "Type error: cannot assign to map value")
    ELSE <<"Assignment target is not an array or map">>

assignIdentErrs(stmt, expectedType, valType) ==
    IF valType = NoType
    THEN <<"assignment of variable '" \o NameText(stmt.Name)
           \o "' uses an undeclared or non-public variable">>
    ELSE IF expectedType = TAny
    THEN ErrIf(IsArrayType(valType), "Type error: cannot assign array type to any")
    ELSE IF expectedType = ArrayOf(TAny)
    THEN ErrIf(~IsArrayType(valType), "Type error: cannot assign non-array type to any[]")
    ELSE ErrIf(valType # expectedType,
               "Type error: cannot assign " \o TypeText(valType) \o " to "
                   \o TypeText(expectedType) \o " (variable '" \o NameText(stmt.Name) \o "')")

checkAssignment(stmt, funcDefs, varTypes, structDefs) ==
    IF stmt.Left.k = "ident" /\ Len(stmt.Left.Value) > 1 THEN <<>>
    ELSE IF stmt.Left.k = "index"
    THEN assignIndexErrs(inferExprType(stmt.Left.Left, funcDefs, varTypes, structDefs),
                         inferExprType(stmt.Left.Index, funcDefs, varTypes, structDefs),
                         inferExprType(stmt.Value, funcDefs, varTypes, structDefs))
    ELSE IF stmt.Name \notin DOMAIN varTypes
    THEN <<"Assignment to undeclared variable '" \o NameText(stmt.Name) \o "'">>
    ELSE assignIdentErrs(stmt, varTypes[stmt.Name],
                         inferExprType(stmt.Value, funcDefs, varTypes, structDefs))

checkWhile(stmt, currentReturnType, funcDefs, varTypes, structDefs) ==
    AfterScope(checkWithReturnType(stmt.Body, currentReturnType, funcDefs, varTypes,
                                   structDefs, TRUE),
               varTypes,
               ErrIf(inferExprType(stmt.Condition, funcDefs, varTypes, structDefs) # TBool,
                     "While condition must be boolean"))

\* the three checks of a for statement share forVarTypes: init leaves r1,
\* the body r2, post r3
forPost(stmt, currentReturnType, r2, structDefs) ==
    IF stmt.Post.k = "nostmt" THEN r2
    ELSE WithErrs(r2.errs,
                  checkWithReturnType(<<stmt.Post>>, currentReturnType, r2.funcDefs,
                                      r2.varTypes, structDefs, FALSE))
forBody(stmt, currentReturnType, r1, structDefs) ==
    forPost(stmt, currentReturnType,
            WithErrs(r1.errs
                     \o ErrIf(inferExprType(stmt.Condition, r1.funcDefs, r1.varTypes,
                                            structDefs) # TBool,
                              "For condition must be boolean"),
                     checkWithReturnType(stmt.Body, currentReturnType, r1.funcDefs,
                                         r1.varTypes, structDefs, TRUE)),
            structDefs)
checkFor(stmt, currentReturnType, funcDefs, varTypes, structDefs) ==
    AfterScope(forBody(stmt, currentReturnType,
                       IF stmt.Init.k = "nostmt" THEN Checked(funcDefs, varTypes, <<>>)
                       ELSE checkWithReturnType(<<stmt.Init>>, currentReturnType, funcDefs,
                                                varTypes, structDefs, FALSE),
                       structDefs),
               varTypes, <<>>)

\* one round of checkWithReturnType's loop over the statements
checkStmt(stmt, currentReturnType, funcDefs, varTypes, structDefs, inLoop) ==
    CASE stmt.k = "let" -> checkLet(stmt, funcDefs, varTypes, structDefs)
      [] stmt.k = "expr" ->
           Checked(funcDefs, varTypes,
                   checkExpressionStatement(stmt, funcDefs, varTypes, structDefs))
      [] stmt.k = "log" ->
           Checked(funcDefs, varTypes, checkLog(stmt, funcDefs, varTypes, structDefs))
      [] stmt.k = "fn" -> checkFunction(stmt, funcDefs, varTypes, structDefs)
      [] stmt.k = "return" ->
           Checked(funcDefs, varTypes,
                   checkReturn(stmt, currentReturnType, funcDefs, varTypes, structDefs))
      [] stmt.k = "assign" ->
           Checked(funcDefs, varTypes, checkAssignment(stmt, funcDefs, varTypes, structDefs))
      [] stmt.k = "break" ->
           Checked(funcDefs, varTypes, ErrIf(~inLoop, "Break statement not inside a loop"))
      [] stmt.k = "continue" ->
           Checked(funcDefs, varTypes, ErrIf(~inLoop, "Continue statement not inside a loop"))
      [] stmt.k = "while" ->
           checkWhile(stmt, currentReturnType, funcDefs, varTypes, structDefs)
      [] stmt.k = "for" -> checkFor(stmt, currentReturnType, funcDefs, varTypes, structDefs)
      [] OTHER -> Checked(funcDefs, varTypes, <<>>)

\* the statements from the i-th on, after the one before has left r
checkRest(r, stmts, i, currentReturnType, structDefs, inLoop) ==
    WithErrs(r.errs,
             checkFrom(stmts, i, currentReturnType, r.funcDefs, r.varTypes, structDefs,
                       inLoop))

checkFromImpl(stmts, i, currentReturnType, funcDefs, varTypes, structDefs, inLoop) ==
    IF i > Len(stmts) THEN Checked(funcDefs, varTypes, <<>>)
    ELSE checkRest(checkStmt(stmts[i], currentReturnType, funcDefs, varTypes, structDefs,
                             inLoop),
                   stmts, i + 1, currentReturnType, structDefs, inLoop)

checkWithReturnTypeImpl(stmts, currentReturnType, funcDefs, varTypes, structDefs, inLoop) ==
    checkFrom(stmts, 1, currentReturnType, RegisterFunctions(stmts, funcDefs), varTypes,
              structDefs, inLoop)

Tc(f, x) ==
    CASE f = "inferExprType" ->
           inferExprTypeImpl(x.expr, x.funcTypes, x.varTypes, x.structDefs)
      [] f = "checkWithReturnType" ->
           checkWithReturnTypeImpl(x.stmts, x.currentReturnType, x.funcDefs, x.varTypes,
                                   x.structDefs, x.inLoop)
      [] f = "checkFrom" ->
           checkFromImpl(x.stmts, x.i, x.currentReturnType, x.funcDefs, x.varTypes,
                         x.structDefs, x.inLoop)

\* the first pass of Check: the struct definitions and the global variables
RECURSIVE RegisterStructs(_, _)
RegisterStructs(stmts, structDefs) ==
    IF Len(stmts) = 0 THEN structDefs
    ELSE RegisterStructs(Tail(stmts),
                         IF stmts[1].k = "struct" THEN (stmts[1].Name :> stmts[1]) @@ structDefs
                         ELSE structDefs)
RECURSIVE RegisterGlobals(_, _)
RegisterGlobals(stmts, globalVars) ==
    IF Len(stmts) = 0 THEN globalVars
    ELSE RegisterGlobals(Tail(stmts),
                         IF stmts[1].k = "let" THEN (stmts[1].Name :> stmts[1].Type) @@ globalVars
                         ELSE globalVars)

EmptyMap == [n \in {} |-> 0]

\* the maps a run of Check works on
Maps(funcDefs, globalVars, structDefs) ==
    [funcDefs |-> funcDefs, globalVars |-> globalVars, structDefs |-> structDefs]
NoMaps == Maps(EmptyMap, EmptyMap, EmptyMap)

\* funcTypes := map[string]string{} ...: every run of Check makes its maps,
\* whatever the run before has left (KeptMaps: it starts with those)
KeptMaps(left) == left

NewMaps(left) == NoMaps

\* the first pass over the maps m
FirstPass(stmts, m) ==
    Maps(RegisterFunctions(stmts, m.funcDefs), RegisterGlobals(stmts, m.globalVars),
         RegisterStructs(stmts, m.structDefs))

\* the second pass: what it returns and the maps as it leaves them
SecondPass(stmts, m, r) == [errs |-> r.errs, left |-> Maps(r.funcDefs, r.varTypes, m.structDefs)]

\* a run of Check after a run that has left the maps left
CheckRun(stmts, left) ==
    SecondPass(stmts, FirstPass(stmts, NewMaps(left)),
               checkWithReturnType(stmts, NoType, FirstPass(stmts, NewMaps(left)).funcDefs,
                                   FirstPass(stmts, NewMaps(left)).globalVars,
                                   FirstPass(stmts, NewMaps(left)).structDefs, FALSE))

\* Check: the errors of a program
Check(stmts) == CheckRun(stmts, NoMaps).errs

\* what chk holds while no checker runs
CheckerIdle == [stmts |-> <<>>, runs |-> <<>>, left |-> NoMaps]
(***************************************************************************)
(* The loader (main.go, loadAndParseFile).  A path is the sequence of its  *)
(* segments, an absolute one begins with "/"; a dotted import path or      *)
(* package name is the sequence of its segments.  The file system maps the *)
(* absolute path of every file that exists to [readable, errors, program]: *)
(* whether os.ReadFile succeeds, the number of errors the parser records   *)
(* and the statements ParseProgram returns.  The configuration is          *)
(* [status, hasProject, packagePrefix, sourceDirs].  A search for a        *)
(* directory name inside a path finds whole segments.                      *)
(***************************************************************************)
Cwd == <<"/", "proj">>
\* filepath.Abs
AbsPath(path) == IF Len(path) > 0 /\ path[1] = "/" THEN path ELSE Cwd \o path
\* filepath.Dir
DirOf(path) == SubSeq(path, 1, Len(path) - 1)
ToxFile(moduleName) == moduleName \o ".tox"
\* the module names of the model, to undo ToxFile
ModuleNames == {"main", "mathx", "util", "app", "other"}
\* strings.TrimSuffix(name, ".tox")
TrimTox(name) ==
    IF \E m \in ModuleNames : ToxFile(m) = name
    THEN CHOOSE m \in ModuleNames : ToxFile(m) = name
    ELSE name

\* strings.Index / strings.LastIndex of a directory name, 0 when absent
RECURSIVE IndexOf(_, _, _)
IndexOf(path, dir, i) ==
    IF i > Len(path) THEN 0
    ELSE IF path[i] = dir THEN i
    ELSE IndexOf(path, dir, i + 1)
RECURSIVE LastIndexOf(_, _, _)
LastIndexOf(path, dir, i) ==
    IF i = 0 THEN 0
    ELSE IF path[i] = dir THEN i
    ELSE LastIndexOf(path, dir, i - 1)

projectRoot(mainPath, srcDir) ==
    IF LastIndexOf(AbsPath(mainPath), srcDir, Len(AbsPath(mainPath))) = 0
    THEN DirOf(mainPath)
    ELSE SubSeq(AbsPath(mainPath), 1,
                LastIndexOf(AbsPath(mainPath), srcDir, Len(AbsPath(mainPath))) - 1)

\* strings.HasPrefix(name, prefix + ".") and the name without that prefix
HasDottedPrefix(name, prefix) ==
    Len(prefix) > 0 /\ Len(name) > Len(prefix) /\ SubSeq(name, 1, Len(prefix)) = prefix
StripPrefix(name, prefix) ==
    IF HasDottedPrefix(name, prefix) THEN SubSeq(name, Len(prefix) + 1, Len(name)) ELSE name

\* importFile: the directories of the import path, then moduleName.tox
ModuleName(segments) == segments[Len(segments)]
ImportFile(segments) == segments \o <<ToxFile(ModuleName(segments))>>
FullPath(path, dir, segments) == projectRoot(path, dir) \o <<dir>> \o ImportFile(segments)

\* os.Stat finds the file; os.ReadFile reads it
FileExists(fs, path) == AbsPath(path) \in DOMAIN fs
FileOf(fs, path) == fs[AbsPath(path)]

\* the first source directory under which the import is found, 0 if none
RECURSIVE FoundDir(_, _, _, _, _)
FoundDir(fs, path, srcDirs, segments, i) ==
    IF i > Len(srcDirs) THEN 0
    ELSE IF FileExists(fs, FullPath(path, srcDirs[i], segments)) THEN i
    ELSE FoundDir(fs, path, srcDirs, segments, i + 1)

\* a copy named moduleName.Name before every function statement
RECURSIVE PrefixFunctions(_, _)
PrefixFunctions(importedStmts, moduleName) ==
    IF Len(importedStmts) = 0 THEN <<>>
    ELSE (IF importedStmts[1].k = "fn"
          THEN <<[importedStmts[1] EXCEPT !.Name = <<moduleName>> \o @], importedStmts[1]>>
          ELSE <<importedStmts[1]>>)
         \o PrefixFunctions(Tail(importedStmts), moduleName)

\* the name of the first package statement, <<>> when there is none
RECURSIVE DeclaredPkg(_)
DeclaredPkg(program) ==
    IF Len(program) = 0 THEN <<>>
    ELSE IF program[1].k = "package" THEN program[1].Name
    ELSE DeclaredPkg(Tail(program))

\* the first source directory whose name occurs in the path, 0 if none
RECURSIVE SrcRootDir(_, _, _)
SrcRootDir(path, srcDirs, i) ==
    IF i > Len(srcDirs) THEN 0
    ELSE IF IndexOf(path, srcDirs[i], 1) # 0 THEN i
    ELSE SrcRootDir(path, srcDirs, i + 1)

\* filepath.Rel(srcRoot, path)
RelPath(path, srcDirs) ==
    IF SrcRootDir(path, srcDirs, 1) = 0
    THEN IF Len(path) > 0 /\ path[1] = "/" THEN <<>> ELSE path
    ELSE SubSeq(path, IndexOf(path, srcDirs[SrcRootDir(path, srcDirs, 1)], 1) + 1, Len(path))

\* strings.Split(expectedPkg, ".")
ExpectedSegments(path, srcDirs) ==
    IF Len(RelPath(path, srcDirs)) = 0 THEN <<"">>
    ELSE DirOf(RelPath(path, srcDirs))
         \o <<TrimTox(RelPath(path, srcDirs)[Len(RelPath(path, srcDirs))])>>

\* lines 106-143: the declared package contradicts the directory
PackageMismatch(program, path, config) ==
    LET declaredPkg == StripPrefix(DeclaredPkg(program), config.packagePrefix)
        expected == ExpectedSegments(path, config.sourceDirs)
    IN /\ declaredPkg # <<>>
       /\ ~(expected = <<"main">>
            /\ (declaredPkg = config.packagePrefix \/ declaredPkg = <<"main">>))
       /\ declaredPkg[Len(declaredPkg)] # expected[Len(expected)]

\* Every recursive call of the loader goes through Ld.  reads is the log of
\* the calls of os.ReadFile, in their order.
RECURSIVE Ld(_, _)
loadAndParseFile(path, loaded, reads, config, fs) ==
    Ld("loadAndParseFile",
       [path |-> path, loaded |-> loaded, reads |-> reads, config |-> config, fs |-> fs])
loadImports(program, i, path, loaded, reads, config, fs, allStmts) ==
    Ld("loadImports", [program |-> program, i |-> i, path |-> path, loaded |-> loaded,
                       reads |-> reads, config |-> config, fs |-> fs, allStmts |-> allStmts])

\* what a call leaves: the loaded set, the log of the reads, the statements
\* appended and the error
Loaded(loaded, reads, allStmts, err) ==
    [loaded |-> loaded, reads |-> reads, allStmts |-> allStmts, err |-> err]

\* lines 80-95: r is what the recursive call for the import has left
importLoaded(r, program, i, path, config, fs, allStmts) ==
    IF r.err # "" THEN Loaded(r.loaded, r.reads, allStmts, r.err)
    ELSE loadImports(program, i + 1, path, r.loaded, r.reads, config, fs,
                     allStmts \o PrefixFunctions(r.allStmts,
                                                 ModuleName(StripPrefix(program[i].Path,
                                                                        config.packagePrefix))))

\* loadImportsImplCopied: the recursive call works on a copy of the map
\* loaded, so what it has marked is lost when it returns
loadImportsImplCopied(program, i, path, loaded, reads, config, fs, allStmts) ==
    LET segments == StripPrefix(program[i].Path, config.packagePrefix)
        d == FoundDir(fs, path, config.sourceDirs, segments, 1)
        r == loadAndParseFile(FullPath(path, config.sourceDirs[d], segments),
                              loaded, reads, config, fs)
    IN IF i > Len(program) THEN Loaded(loaded, reads, allStmts, "")
       ELSE IF program[i].k # "import"
       THEN loadImports(program, i + 1, path, loaded, reads, config, fs, allStmts)
       ELSE IF d = 0
       THEN Loaded(loaded, reads, allStmts,
                   "import not found: " \o NameText(program[i].Path))
       ELSE importLoaded([r EXCEPT !.loaded = loaded], program, i, path, config, fs,
                         allStmts)

\* lines 63-104: the loop over the statements, from the i-th on
loadImportsImpl(program, i, path, loaded, reads, config, fs, allStmts) ==
    LET segments == StripPrefix(program[i].Path, config.packagePrefix)
        d == FoundDir(fs, path, config.sourceDirs, segments, 1)
    IN IF i > Len(program) THEN Loaded(loaded, reads, allStmts, "")
       ELSE IF program[i].k # "import"
       THEN loadImports(program, i + 1, path, loaded, reads, config, fs, allStmts)
       ELSE IF d = 0
       THEN Loaded(loaded, reads, allStmts,
                   "import not found: " \o NameText(program[i].Path))
       ELSE importLoaded(loadAndParseFile(FullPath(path, config.sourceDirs[d], segments),
                                          loaded, reads, config, fs),
                         program, i, path, config, fs, allStmts)

\* lines 106-146: r is what the loop over the imports has left
importsLoaded(r, program, path, config) ==
    IF r.err # "" THEN r
    ELSE IF PackageMismatch(program, path, config)
    THEN Loaded(r.loaded, r.reads, r.allStmts, "package name mismatch")
    ELSE Loaded(r.loaded, r.reads, r.allStmts \o program, "")

\* lines 39-54 and the rest through importsLoaded: os.ReadFile(path) is
\* called right after loaded[path] = true
loadAndParseFileImpl(path, loaded, reads, config, fs) ==
    LET marked == loaded \cup {path}
        read == Append(reads, path)
    IN IF path \in loaded THEN Loaded(loaded, reads, <<>>, "")
       ELSE IF ~FileExists(fs, path) \/ ~FileOf(fs, path).readable
       THEN Loaded(marked, read, <<>>, "error reading file " \o Join(path, "/"))
       ELSE IF FileOf(fs, path).errors > 0
       THEN Loaded(marked, read, <<>>, "parser errors in " \o Join(path, "/"))
       ELSE IF ~config.hasProject
       THEN Loaded(marked, read, <<>>, "panic")
       ELSE importsLoaded(loadImports(FileOf(fs, path).program, 1, path, marked, read,
                                      config, fs, <<>>),
                          FileOf(fs, path).program, path, config)

Ld(f, x) ==
    CASE f = "loadAndParseFile" ->
           loadAndParseFileImpl(x.path, x.loaded, x.reads, x.config, x.fs)
      [] f = "loadImports" ->
           loadImportsImpl(x.program, x.i, x.path, x.loaded, x.reads, x.config, x.fs,
                           x.allStmts)
(***************************************************************************)
(* Programs.  A program is named by a descriptor [fam, a, b, c]; Build     *)
(* gives the statements of its main file.                                  *)
(***************************************************************************)
Num(n) == IntegerLiteral(n)
Bin(l, op, r) == BinaryExpression(l, op, r)
Call(f, args) == CallExpression(Id(f), args)
Let(n, type, e) == LetStatement(<<n>>, type, e, "")
Assign(n, e) == AssignmentStatement(Id(n), e)
Log(e) == LogFunction(e)
If(c, body) == IfStatement(c, body, <<>>, <<>>, <<>>)
Fnc(n, params, ptypes, rtype, body) == FunctionStatement(<<n>>, params, ptypes, rtype, body, "")
Main(body) == Fnc("main", <<>>, <<>>, TVoid, body)
\* for let i int >> 0 ; i < n ; i >> i + 1 { body }
ForTo(n, body) ==
    ForStatement(Let("i", TInt, Num(0)), Bin(Id("i"), "LT", Num(n)),
                 Assign("i", Bin(Id("i"), "+", Num(1))), body)

\* fam "s5": scenario 5, with the loop bound n, break at i == b and
\* continue at i == c
Scenario5(n, b, c) ==
    <<Main(<<Let("s", TInt, Num(0)),
             ForTo(n, <<If(Bin(Id("i"), "EQ", Num(b)), <<BreakStatement>>),
                        If(Bin(Id("i"), "EQ", Num(c)), <<ContinueStatement>>),
                        Assign("s", Bin(Id("s"), "+", Id("i")))>>),
             Log(Id("s"))>>)>>

\* fam "sig": f executes the signal a (1 break, 2 continue) at the place b
\* (1 the top of its body, 2 inside an if, 3 inside a while of its own) and
\* is called three times from a loop of main (c: 1 for, 2 while)
SigStmt(a) == IF a = 1 THEN BreakStatement ELSE ContinueStatement
SigBody(a, b) ==
    CASE b = 1 -> <<SigStmt(a)>>
      [] b = 2 -> <<If(BoolLiteral(TRUE), <<SigStmt(a)>>)>>
      [] b = 3 -> <<Let("j", TInt, Num(0)),
                    WhileStatement(Bin(Id("j"), "LT", Num(2)),
                                   <<Assign("j", Bin(Id("j"), "+", Num(1))), SigStmt(a)>>)>>
SigCall == <<Let("r", TInt, Call("f", <<>>)), Assign("n", Bin(Id("n"), "+", Id("r")))>>
SigProgram(a, b, c) ==
    <<Fnc("f", <<>>, <<>>, TInt, SigBody(a, b) \o <<ReturnStatement(Num(7))>>),
      Main(<<Let("n", TInt, Num(0))>>
           \o (IF c = 1 THEN <<ForTo(3, SigCall)>>
               ELSE <<Let("i", TInt, Num(0)),
                      WhileStatement(Bin(Id("i"), "LT", Num(3)),
                                     <<Assign("i", Bin(Id("i"), "+", Num(1)))>> \o SigCall)>>)
           \o <<Log(Id("n"))>>)>>

\* fam "ret": f returns b from the place a (1 the top of its body, 2 an if
\* body, 3 a while body, 4 a for body, 5 an else body), then logs "after"
\* and returns 0; main logs f()
RetNest(a, ret) ==
    CASE a = 1 -> ret
      [] a = 2 -> If(BoolLiteral(TRUE), <<ret>>)
      [] a = 3 -> WhileStatement(BoolLiteral(TRUE), <<ret>>)
      [] a = 4 -> ForTo(2, <<ret>>)
      [] a = 5 -> IfStatement(BoolLiteral(FALSE), <<>>, <<>>, <<>>, <<ret>>)
RetProgram(a, b) ==
    <<Fnc("f", <<>>, <<>>, TInt,
          <<RetNest(a, ReturnStatement(Num(b))), Log(Str("after")), ReturnStatement(Num(0))>>),
      Main(<<Log(Call("f", <<>>))>>)>>

\* fam "scope": the callee (a: 1 the function f, 2 the method T.m of the
\* global u) uses the name x that only its caller binds (b: 1 by let in
\* main, 2 as the variable of a for loop, 3 as the parameter of the calling
\* function g); c: 1 the callee logs x, 2 it assigns x >> 5 and logs x.
\* The caller logs x after the call.
ScopeCalleeBody(c) ==
    <<If(BoolLiteral(TRUE),
         (IF c = 2 THEN <<Assign("x", Num(5))>> ELSE <<>>) \o <<Log(Id("x"))>>),
      ReturnStatement(Num(0))>>
ScopeCall(a) ==
    Let("r", TInt, IF a = 1 THEN Call("f", <<>>)
                   ELSE CallExpression(Identifier(<<"u", "m">>), <<>>))
ScopeProgram(a, b, c) ==
    <<StructStatement("T", <<>>),
      Fnc("f", <<>>, <<>>, TInt, ScopeCalleeBody(c)),
      FunctionStatement(<<"T", "m">>, <<<<"self">>>>, <<StructType("T")>>, TInt,
                        ScopeCalleeBody(c), ""),
      Let("u", StructType("T"), StructLiteral("T", <<>>)),
      Fnc("g", <<<<"x">>>>, <<TInt>>, TInt,
          <<ScopeCall(a), Log(Id("x")), ReturnStatement(Num(0))>>),
      Main(CASE b = 1 -> <<Let("x", TInt, Num(1)), ScopeCall(a), Log(Id("x"))>>
             [] b = 2 -> <<ForStatement(Let("x", TInt, Num(1)), Bin(Id("x"), "LT", Num(2)),
                                        Assign("x", Bin(Id("x"), "+", Num(1))),
                                        <<ScopeCall(a), Log(Id("x"))>>)>>
             [] b = 3 -> <<Let("q", TInt, Call("g", <<Num(1)>>))>>)>>

\* fam "block": main declares x >> 1 (when b = 1), runs a block that
\* declares let x >> c (a: 1 an if body, 2 an elif body, 3 an else body,
\* 4 a while body, 5 a for body, 6 the init of a for) and, when b = 1, logs x
BlockOf(a, c) ==
    CASE a = 1 -> <<If(BoolLiteral(TRUE), <<Let("x", TInt, Num(c))>>)>>
      [] a = 2 -> <<IfStatement(BoolLiteral(FALSE), <<>>, <<BoolLiteral(TRUE)>>,
                                <<<<Let("x", TInt, Num(c))>>>>, <<>>)>>
      [] a = 3 -> <<IfStatement(BoolLiteral(FALSE), <<>>, <<>>, <<>>,
                                <<Let("x", TInt, Num(c))>>)>>
      [] a = 4 -> <<Let("k", TInt, Num(0)),
                    WhileStatement(Bin(Id("k"), "LT", Num(1)),
                                   <<Assign("k", Bin(Id("k"), "+", Num(1))),
                                     Let("x", TInt, Num(c))>>)>>
      [] a = 5 -> <<ForTo(1, <<Let("x", TInt, Num(c))>>)>>
      [] a = 6 -> <<ForStatement(Let("x", TInt, Num(c)), Bin(Id("x"), "LT", Num(c + 1)),
                                 Assign("x", Bin(Id("x"), "+", Num(1))), <<>>)>>
BlockProgram(a, b, c) ==
    <<Main((IF b = 1 THEN <<Let("x", TInt, Num(1))>> ELSE <<>>)
           \o BlockOf(a, c)
           \o (IF b = 1 THEN <<Log(Id("x"))>> ELSE <<>>))>>

\* fam "alias": a container (a: 1 array, 2 map, 3 struct) gets a second
\* binding (b: 1 by let, 2 by assignment, 3 by argument passing), is changed
\* in place through one binding and read through the other (c: 1 changed
\* through the first binding, 2 through the second)
AliasType(a) ==
    CASE a = 1 -> ArrayOf(TInt)
      [] a = 2 -> MapOf(TString, TInt)
      [] a = 3 -> StructType("T")
AliasLit(a) ==
    CASE a = 1 -> ArrayLiteral(<<Num(1), Num(2), Num(3)>>)
      [] a = 2 -> MapLiteral(TString, TInt, <<<<Str("k"), Num(1)>>>>)
      [] a = 3 -> StructLiteral("T", <<<<"f", Num(1)>>>>)
AliasMut(a, n) ==
    CASE a = 1 -> AssignmentStatement(IndexExpression(Id(n), Num(0)), Num(99))
      [] a = 2 -> AssignmentStatement(IndexExpression(Id(n), Str("k")), Num(99))
      [] a = 3 -> AssignmentStatement(Identifier(<<n, "f">>), Num(99))
AliasRead(a, n) ==
    CASE a = 1 -> IndexExpression(Id(n), Num(0))
      [] a = 2 -> IndexExpression(Id(n), Str("k"))
      [] a = 3 -> Identifier(<<n, "f">>)
AliasProgram(a, b, c) ==
    <<StructStatement("T", <<<<"f", TInt>>>>),
      Let("g", AliasType(a), AliasLit(a)),
      Fnc("mut", <<>>, <<>>, TInt, <<AliasMut(a, "g"), ReturnStatement(Num(0))>>),
      Fnc("rd", <<<<"p">>>>, <<AliasType(a)>>, TInt,
          <<Let("r", TInt, Call("mut", <<>>)), ReturnStatement(AliasRead(a, "p"))>>),
      Fnc("wr", <<<<"p">>>>, <<AliasType(a)>>, TInt,
          <<AliasMut(a, "p"), ReturnStatement(Num(0))>>),
      Main(CASE b = 1 -> <<Let("xs", AliasType(a), AliasLit(a)),
                           Let("ys", AliasType(a), Id("xs"))>>
                         \o (IF c = 1 THEN <<AliasMut(a, "xs"), Log(AliasRead(a, "ys"))>>
                             ELSE <<AliasMut(a, "ys"), Log(AliasRead(a, "xs"))>>)
             [] b = 2 -> <<Let("xs", AliasType(a), AliasLit(a)),
                           Let("ys", AliasType(a), AliasLit(a)),
                           Assign("ys", Id("xs"))>>
                         \o (IF c = 1 THEN <<AliasMut(a, "xs"), Log(AliasRead(a, "ys"))>>
                             ELSE <<AliasMut(a, "ys"), Log(AliasRead(a, "xs"))>>)
             [] b = 3 -> IF c = 1 THEN <<Log(Call("rd", <<Id("g")>>))>>
                         ELSE <<Let("xs", AliasType(a), AliasLit(a)),
                                Let("r", TInt, Call("wr", <<Id("xs")>>)),
                                Log(AliasRead(a, "xs"))>>)>>

\* fam "bin": main logs  L op R  and then "next"; a is the operator, b and
\* c the kinds of the operands
BinOps == <<"+", "-", "*", "/", "%", "EQ", "NEQ", "LT", "LTE", "GT", "GTE", "AND", "OR">>
Operands ==
    <<Num(0), Num(3), Str("a"), BoolLiteral(TRUE), NilLiteral, ArrayLiteral(<<Num(1)>>),
      Id("m"), Id("u")>>
BinProgram(a, b, c) ==
    <<StructStatement("T", <<>>),
      Main(<<Let("m", MapOf(TString, TInt), MapLiteral(TString, TInt, <<>>)),
             Let("u", StructType("T"), StructLiteral("T", <<>>)),
             Log(Bin(Operands[b], BinOps[a], Operands[c])),
             Log(Str("next"))>>)>>

\* fam "meth": u.m(a, b) on a struct u of type T (c: 1 u is a local of main,
\* 2 u is global and the call is made in a for body, 3 u is the parameter of
\* the calling function); the method stores its second parameter in this.f
MethCall(a, b) ==
    Let("r", TInt, CallExpression(Identifier(<<"u", "m">>), <<Num(a), Num(b)>>))
NewT == StructLiteral("T", <<<<"f", Num(0)>>>>)
MethProgram(a, b, c) ==
    <<StructStatement("T", <<<<"f", TInt>>>>),
      FunctionStatement(<<"T", "m">>, <<<<"self">>, <<"p">>, <<"q">>>>,
                        <<StructType("T"), TInt, TInt>>, TInt,
                        <<AssignmentStatement(Identifier(<<"this", "f">>), Id("p")),
                          ReturnStatement(Id("q"))>>, ""),
      Fnc("g", <<<<"u">>>>, <<StructType("T")>>, TInt,
          <<MethCall(a, b), ReturnStatement(Num(0))>>)>>
    \o (IF c = 2 THEN <<Let("u", StructType("T"), NewT)>> ELSE <<>>)
    \o <<Main(CASE c = 1 -> <<Let("u", StructType("T"), NewT), MethCall(a, b),
                             Log(Identifier(<<"u", "f">>))>>
                [] c = 2 -> <<ForTo(1, <<MethCall(a, b)>>), Log(Identifier(<<"u", "f">>))>>
                [] c = 3 -> <<Let("w", StructType("T"), NewT),
                              Let("z", TInt, Call("g", <<Id("w")>>)),
                              Log(Identifier(<<"w", "f">>))>>)>>

\* fam "imp": main imports the module mathx, which declares f and v (a: 1
\* both pub, 2 neither), and uses it (c: 1 the statement mathx.f(), 2
\* log(mathx.f()), 3 log(f())); b is what is wrong with the project, see
\* Project
ImpUse(c) ==
    CASE c = 1 -> <<ExpressionStatement(CallExpression(Identifier(<<"mathx", "f">>), <<>>)),
                    Log(Str("ok"))>>
      [] c = 2 -> <<Log(CallExpression(Identifier(<<"mathx", "f">>), <<>>))>>
      [] c = 3 -> <<Log(Call("f", <<>>))>>
ImpMain(b, c) ==
    <<PackageStatement(<<"main">>), ImportStatement(<<"mathx">>)>>
    \o (IF b = 15 THEN <<ImportStatement(<<"util">>)>> ELSE <<>>)
    \o <<Main((IF b = 7 THEN <<Let("z", TInt, Str("s"))>> ELSE <<>>) \o ImpUse(c))>>
Vis(a) == IF a = 1 THEN "pub" ELSE ""
MathxModule(a, b) ==
    <<PackageStatement(IF b = 12 THEN <<"other">> ELSE <<"mathx">>)>>
    \o (IF b \in {14, 15, 16} THEN <<ImportStatement(<<"util">>)>> ELSE <<>>)
    \o <<FunctionStatement(<<"f">>, <<>>, <<>>, TInt, <<ReturnStatement(Num(5))>>, Vis(a)),
         LetStatement(<<"v">>, TInt, IF b = 8 THEN Str("s") ELSE Num(7), Vis(a))>>
UtilModule(b) ==
    <<PackageStatement(<<"util">>)>>
    \o (IF b \in {14, 16} THEN <<ImportStatement(<<"mathx">>)>> ELSE <<>>)
    \o <<FunctionStatement(<<"h">>, <<>>, <<>>, TInt, <<ReturnStatement(Num(1))>>, "pub")>>

\* fam "top": only top-level statements and no function main (a: 1 a
\* global g, 2 a global variable that is named main)
TopProgram(a) ==
    <<Let(IF a = 1 THEN "g" ELSE "main", TInt, Num(1)),
      Log(Id(IF a = 1 THEN "g" ELSE "main"))>>

\* fam "tret": log "before", return nil, log "after", as the top-level
\* statements (a = 1) or as the body of main (a = 2)
TopReturnBody == <<Log(Str("before")), ReturnStatement(NilLiteral), Log(Str("after"))>>
TopReturnProgram(a) == IF a = 1 THEN TopReturnBody ELSE <<Main(TopReturnBody)>>

\* fam "sc": main logs l && f() with l falsy (a = 1) or l || f() with l
\* truthy (a = 2), l a Bool, an Int or a String (b); f logs "called"
ShortLeft(a, b) ==
    CASE b = 1 -> BoolLiteral(a = 2)
      [] b = 2 -> Num(IF a = 2 THEN 1 ELSE 0)
      [] b = 3 -> IF a = 2 THEN Str("x") ELSE StringLiteral(<<>>)
ShortProgram(a, b) ==
    <<Fnc("f", <<>>, <<>>, TBool, <<Log(Str("called")), ReturnStatement(BoolLiteral(TRUE))>>),
      Main(<<Log(Bin(ShortLeft(a, b), IF a = 1 THEN "AND" ELSE "OR", Call("f", <<>>)))>>)>>

\* fam "slice": main binds ys to xs[s:e] for xs = [1, 2, 3]; a and b say
\* the bounds s and e: 0 none, else the integer a - 2 (-1 to 4)
Xs123 == Let("xs", ArrayOf(TInt), ArrayLiteral(<<Num(1), Num(2), Num(3)>>))
XsLen == Len(Xs123.Value.Elements)
IntExpr(n) == IF n < 0 THEN UnaryExpression("-", Num(-n)) ELSE Num(n)
SliceBound(c) == IF c = 0 THEN NoExpr ELSE IntExpr(c - 2)
SliceProgram(a, b) ==
    <<Main(<<Xs123,
             Let("ys", ArrayOf(TInt), SliceExpression(Id("xs"), SliceBound(a), SliceBound(b))),
             Log(Str("next"))>>)>>

\* fam "idx": with xs = [1, 2, 3] and m = {"k": 1}, main assigns xs[i] to v
\* (a = 1), assigns 99 to xs[i] (a = 2) or assigns m[i] to v (a = 3); the
\* index i (b) is -1, 3, 4, "a", true or nil, none of them an index of xs
\* or a key of m
BadIndex(b) ==
    CASE b = 1 -> IntExpr(-1)
      [] b = 2 -> Num(3)
      [] b = 3 -> Num(4)
      [] b = 4 -> Str("a")
      [] b = 5 -> BoolLiteral(TRUE)
      [] b = 6 -> NilLiteral
IdxProgram(a, b) ==
    <<Main(<<Xs123,
             Let("m", MapOf(TString, TInt), MapLiteral(TString, TInt, <<<<Str("k"), Num(1)>>>>)),
             Let("v", TInt, Num(7))>>
           \o (CASE a = 1 -> <<Assign("v", IndexExpression(Id("xs"), BadIndex(b)))>>
                 [] a = 2 -> <<AssignmentStatement(IndexExpression(Id("xs"), BadIndex(b)),
                                                   Num(99))>>
                 [] a = 3 -> <<Assign("v", IndexExpression(Id("m"), BadIndex(b)))>>)
           \o <<Log(Str("next"))>>)>>

\* fam "for": main runs  for let i int >> init() ; cond(i) ; i >> i + post()
\* { log("body") ... }  and logs "end"; init, cond and post log their names
\* and cond(i) is i < b.  a: 1 the body is the log alone, 2 it goes on with
\* continue and log("skipped"), 3 with break and log("skipped"); c: 2 main
\* has declared let i int >> 7 before the loop, 1 it has not
ForTail(a) ==
    CASE a = 1 -> <<>>
      [] a = 2 -> <<ContinueStatement, Log(Str("skipped"))>>
      [] a = 3 -> <<BreakStatement, Log(Str("skipped"))>>
ForProgram(a, b, c) ==
    <<Fnc("init", <<>>, <<>>, TInt, <<Log(Str("init")), ReturnStatement(Num(0))>>),
      Fnc("cond", <<<<"i">>>>, <<TInt>>, TBool,
          <<Log(Str("cond")), ReturnStatement(Bin(Id("i"), "LT", Num(b)))>>),
      Fnc("post", <<>>, <<>>, TInt, <<Log(Str("post")), ReturnStatement(Num(1))>>),
      Main((IF c = 2 THEN <<Let("i", TInt, Num(7))>> ELSE <<>>)
           \o <<ForStatement(Let("i", TInt, Call("init", <<>>)), Call("cond", <<Id("i")>>),
                             Assign("i", Bin(Id("i"), "+", Call("post", <<>>))),
                             <<Log(Str("body"))>> \o ForTail(a)),
                Log(Str("end"))>>)>>

\* fam "chain": with  let in Inner >> Inner{c: 1}  and  let a Outer >>
\* Outer{b: in}, main logs a.b.c (a = 1), assigns a.b.c >> 5 and logs in.c
\* (a = 2), or assigns a.b.c >> 5 and logs a.b.c (a = 3)
ChainProgram(a) ==
    <<StructStatement("Inner", <<<<"c", TInt>>>>),
      StructStatement("Outer", <<<<"b", StructType("Inner")>>>>),
      Main(<<Let("in", StructType("Inner"), StructLiteral("Inner", <<<<"c", Num(1)>>>>)),
             Let("a", StructType("Outer"), StructLiteral("Outer", <<<<"b", Id("in")>>>>))>>
           \o (IF a = 1 THEN <<>>
               ELSE <<AssignmentStatement(Identifier(<<"a", "b", "c">>), Num(5))>>)
           \o <<Log(Identifier(IF a = 2 THEN <<"in", "c">> ELSE <<"a", "b", "c">>))>>)>>

\* fam "asg": the assignment x >> v, x declared with the type b (1 int,
\* 2 any, 3 any[], 4 int[]) and v of the kind c (1 an Int, 2 a String, 3 an
\* array of Int, 4 a name that is declared nowhere).  a is where x is
\* declared: 1 by a let of main before the assignment, 2 nowhere, 3 by a
\* top-level let that follows the top-level assignment, 4 by a let of main
\* while the assignment is in the body of a function g declared in main,
\* 5 by a top-level let before the function that assigns, 6 as the parameter
\* of the function that assigns (main does not call it), 7 by the init of a
\* for statement of main that precedes the assignment
AsgType(b) ==
    CASE b = 1 -> TInt
      [] b = 2 -> TAny
      [] b = 3 -> ArrayOf(TAny)
      [] b = 4 -> ArrayOf(TInt)
AsgInit(b) == IF b \in {1, 2} THEN Num(0) ELSE ArrayLiteral(<<Num(1)>>)
AsgValue(c) ==
    CASE c = 1 -> Num(5)
      [] c = 2 -> Str("s")
      [] c = 3 -> ArrayLiteral(<<Num(5)>>)
      [] c = 4 -> Id("zz")
AsgLet(b) == Let("x", AsgType(b), AsgInit(b))
AsgStmt(c) == Assign("x", AsgValue(c))
CallStmt(f, args) == ExpressionStatement(Call(f, args))
AsgProgram(a, b, c) ==
    CASE a = 1 -> <<Main(<<AsgLet(b), AsgStmt(c)>>)>>
      [] a = 2 -> <<Main(<<AsgStmt(c)>>)>>
      [] a = 3 -> <<AsgStmt(c), AsgLet(b), Main(<<>>)>>
      [] a = 4 -> <<Main(<<AsgLet(b), Fnc("g", <<>>, <<>>, TVoid, <<AsgStmt(c)>>),
                           CallStmt("g", <<>>)>>)>>
      [] a = 5 -> <<AsgLet(b), Fnc("f", <<>>, <<>>, TVoid, <<AsgStmt(c)>>),
                    Main(<<CallStmt("f", <<>>)>>)>>
      [] a = 6 -> <<Fnc("f", <<<<"x">>>>, <<AsgType(b)>>, TVoid, <<AsgStmt(c)>>),
                    Main(<<>>)>>
      [] a = 7 -> <<Main(<<ForStatement(AsgLet(b), BoolLiteral(FALSE), NoStmt, <<>>),
                           AsgStmt(c)>>)>>

\* fam "view": main binds ys to xs[a:b] for xs = [1, 2, 3], then stores 99
\* in ys[0] and logs xs[a] (c = 1) or stores 99 in xs[a] and logs ys[0]
\* (c = 2)
ViewProgram(a, b, c) ==
    <<Main(<<Xs123,
             Let("ys", ArrayOf(TInt), SliceExpression(Id("xs"), Num(a), Num(b)))>>
           \o (IF c = 1
               THEN <<AssignmentStatement(IndexExpression(Id("ys"), Num(0)), Num(99)),
                      Log(IndexExpression(Id("xs"), Num(a)))>>
               ELSE <<AssignmentStatement(IndexExpression(Id("xs"), Num(a)), Num(99)),
                      Log(IndexExpression(Id("ys"), Num(0)))>>))>>

\* fam "file": main takes the handle h1 (a: 1 go.file.open("f"),
\* 2 go.file.create("f"), 3 go.file.open("bad"), which fails), closes it
\* b - 1 times, takes the handle h2 (c: 1 go.file.open("g"),
\* 2 go.file.create("g"), 3 go.file.open("f")), writes to h1, reads a line
\* and the rest from h1, closes h1, logs both handles and closes h2
GoCall(name, args) == CallExpression(Identifier(name), args)
FileTake(k) ==
    CASE k = 1 -> GoCall(<<"go", "file", "open">>, <<Str("f")>>)
      [] k = 2 -> GoCall(<<"go", "file", "create">>, <<Str("f")>>)
      [] k = 3 -> GoCall(<<"go", "file", "open">>, <<Str("bad")>>)
      [] k = 4 -> GoCall(<<"go", "file", "open">>, <<Str("g")>>)
      [] k = 5 -> GoCall(<<"go", "file", "create">>, <<Str("g")>>)
FileClose(h) == ExpressionStatement(GoCall(<<"go", "file", "close">>, <<Id(h)>>))
FileProgram(a, b, c) ==
    <<Main(<<Let("h1", TInt, FileTake(a))>>
           \o [i \in 1..(b - 1) |-> FileClose("h1")]
           \o <<Let("h2", TInt, FileTake(IF c = 3 THEN 1 ELSE c + 3)),
                ExpressionStatement(GoCall(<<"go", "file", "write">>, <<Id("h1"), Str("x")>>)),
                ExpressionStatement(GoCall(<<"go", "file", "readline">>, <<Id("h1")>>)),
                ExpressionStatement(GoCall(<<"go", "file", "read">>, <<Id("h1")>>)),
                FileClose("h1"),
                Log(Id("h1")), Log(Id("h2")),
                FileClose("h2")>>)>>

Build(d) ==
    CASE d.fam = "s5" -> Scenario5(d.a, d.b, d.c)
      [] d.fam = "sig" -> SigProgram(d.a, d.b, d.c)
      [] d.fam = "ret" -> RetProgram(d.a, d.b)
      [] d.fam = "scope" -> ScopeProgram(d.a, d.b, d.c)
      [] d.fam = "block" -> BlockProgram(d.a, d.b, d.c)
      [] d.fam = "alias" -> AliasProgram(d.a, d.b, d.c)
      [] d.fam = "bin" -> BinProgram(d.a, d.b, d.c)
      [] d.fam = "meth" -> MethProgram(d.a, d.b, d.c)
      [] d.fam = "top" -> TopProgram(d.a)
      [] d.fam = "tret" -> TopReturnProgram(d.a)
      [] d.fam = "sc" -> ShortProgram(d.a, d.b)
      [] d.fam = "slice" -> SliceProgram(d.a, d.b)
      [] d.fam = "idx" -> IdxProgram(d.a, d.b)
      [] d.fam = "for" -> ForProgram(d.a, d.b, d.c)
      [] d.fam = "chain" -> ChainProgram(d.a)
      [] d.fam = "asg" -> AsgProgram(d.a, d.b, d.c)
      [] d.fam = "file" -> FileProgram(d.a, d.b, d.c)
      [] d.fam = "view" -> ViewProgram(d.a, d.b, d.c)
      [] d.fam = "imp" -> ImpMain(d.b, d.c)

Desc(fam, a, b, c) == [fam |-> fam, a |-> a, b |-> b, c |-> c]

\* the programs the evaluator is run on
Programs ==
    {Desc("s5", 10, b, c) : b \in {2, 5, 10}, c \in {2, 7, 10}}
    \cup {Desc("sig", a, b, c) : a \in 1..2, b \in 1..3, c \in 1..2}
    \cup {Desc("ret", a, b, 0) : a \in 1..5, b \in 1..2}
    \cup {Desc("scope", a, b, c) : a \in 1..2, b \in 1..3, c \in 1..2}
    \cup {Desc("block", a, b, c) : a \in 1..6, b \in 0..1, c \in 2..3}
    \cup {Desc("alias", a, b, c) : a \in 1..3, b \in 1..3, c \in 1..2}
    \cup {Desc("bin", a, b, c) : a \in 1..Len(BinOps), b \in 1..Len(Operands),
                                 c \in 1..Len(Operands)}
    \cup {Desc("meth", a, b, c) : a \in 1..2, b \in 3..4, c \in 1..3}
    \cup {Desc("top", a, 0, 0) : a \in 1..2}
    \cup {Desc("tret", a, 0, 0) : a \in 1..2}
    \cup {Desc("sc", a, b, 0) : a \in 1..2, b \in 1..3}
    \cup {Desc("slice", a, b, 0) : a \in 0..6, b \in 0..6}
    \cup {Desc("idx", a, b, 0) : a \in 1..3, b \in 1..6}
    \cup {Desc("for", a, b, c) : a \in 1..3, b \in 0..2, c \in 1..2}
    \cup {Desc("chain", a, 0, 0) : a \in 1..3}
    \cup {Desc("asg", a, b, c) : a \in 1..7, b \in 1..4, c \in 1..4}
    \cup {Desc("file", a, b, c) : a \in 1..3, b \in 1..3, c \in 1..3}
    \cup {d \in {Desc("view", a, b, c) : a \in 0..(XsLen - 1), b \in 1..XsLen, c \in 1..2} :
             d.a < d.b}

(***************************************************************************)
(* Projects: the command line, the configuration and the files a run of    *)
(* the interpreter finds.  The faults of the family "imp" (b): 0 none,     *)
(* 1 the main file is missing, 2 it is unreadable, 3 it has parse errors,  *)
(* 4 the imported file is missing, 5 it is unreadable, 6 it has parse      *)
(* errors, 7 a type error in main, 8 a type error in the module, 9 no      *)
(* configuration file, 10 a malformed one, 11 one without the project      *)
(* entry, 12 the module declares another package, 13 no command, 14 the    *)
(* modules mathx and util import each other, 15 main and mathx both import *)
(* util, 16 as 14 with the module mathx run as the main file.              *)
(***************************************************************************)
Faults == 0..16
MainPath == <<"src", "main.tox">>
MathxPath == <<"/", "proj", "src", "mathx", "mathx.tox">>
\* the module mathx as it is named on the command line
MathxArg == <<"src", "mathx", "mathx.tox">>
UtilPath == <<"/", "proj", "src", "util", "util.tox">>
File(readable, errors, program) ==
    [readable |-> readable, errors |-> errors, program |-> program]

ProjectArgs(d) ==
    IF d.fam = "imp" /\ d.b = 13 THEN <<>>
    ELSE IF d.fam = "imp" /\ d.b = 16 THEN <<<<"run">>, MathxArg>>
    ELSE <<<<"run">>, MainPath>>
ProjectConfig(d) ==
    [status |-> IF d.fam = "imp" /\ d.b = 9 THEN "missing"
                ELSE IF d.fam = "imp" /\ d.b = 10 THEN "malformed" ELSE "ok",
     hasProject |-> ~(d.fam = "imp" /\ d.b = 11),
     packagePrefix |-> <<>>,
     sourceDirs |-> <<"src">>]
ProjectFiles(d) ==
    IF d.fam # "imp" THEN AbsPath(MainPath) :> File(TRUE, 0, Build(d))
    ELSE (IF d.b = 1 THEN EmptyMap
          ELSE AbsPath(MainPath) :> File(d.b # 2, IF d.b = 3 THEN 2 ELSE 0, Build(d)))
         @@ (IF d.b = 4 THEN EmptyMap
             ELSE MathxPath :> File(d.b # 5, IF d.b = 6 THEN 1 ELSE 0, MathxModule(d.a, d.b)))
         @@ (IF d.b \in {14, 15, 16} THEN UtilPath :> File(TRUE, 0, UtilModule(d.b))
             ELSE EmptyMap)

\* the projects the interpreter is run on
Projects ==
    Programs \cup {Desc("imp", a, b, c) : a \in 1..2, b \in Faults, c \in 1..3}

(***************************************************************************)
(* The lexer (lexer package).  The input is a sequence of bytes, each      *)
(* written as a one-character string; a token's Literal is the sequence of *)
(* its bytes.  Positions count from 0 as in Go.                            *)
(***************************************************************************)
\* the bytes 0, '\n', '\t', '\r' and '"'
NUL == "NUL"
LF == "LF"
TAB == "TAB"
CR == "CR"
QUOTE == "QUOTE"
\* what an index or a slice out of range stands for (a Go run-time panic)
OutOfRange == "OutOfRange"

\* l.input[i]
ByteAt(input, i) == IF i >= 0 /\ i < Len(input) THEN input[i + 1] ELSE OutOfRange
\* l.input[a:b]
Substring(input, a, b) ==
    IF 0 <= a /\ a <= b /\ b <= Len(input) THEN SubSeq(input, a + 1, b) ELSE <<OutOfRange>>

readChar(l) ==
    LET c == IF l.readPosition >= Len(l.input) THEN NUL ELSE ByteAt(l.input, l.readPosition)
    IN [l EXCEPT !.ch = c,
                 !.col = IF c = LF THEN 0 ELSE @ + 1,
                 !.position = l.readPosition,
                 !.readPosition = @ + 1]

LexerNew(input) ==
    readChar([input |-> input, position |-> 0, readPosition |-> 0, ch |-> NUL,
              line |-> 1, col |-> 0])

peekChar(l) ==
    IF l.readPosition >= Len(l.input) THEN NUL ELSE ByteAt(l.input, l.readPosition)

\* l.ch == '/' && l.peekChar() == '/'
AtComment(l) == IF l.ch = "/" THEN peekChar(l) = "/" ELSE FALSE

\* for l.ch != '\n' && l.ch != 0 { l.readChar() }
RECURSIVE skipComment(_)
skipComment(l) == IF l.ch \notin {LF, NUL} THEN skipComment(readChar(l)) ELSE l

RECURSIVE skipWhitespace(_)
skipWhitespace(l) ==
    IF AtComment(l) THEN skipWhitespace(skipComment(l))
    ELSE IF l.ch \in {" ", TAB, LF, CR}
    THEN skipWhitespace(readChar([l EXCEPT !.line = IF l.ch = LF THEN @ + 1 ELSE @]))
    ELSE l

\* the loop of readString: readChar until '"' or 0
RECURSIVE readToQuote(_)
readToQuote(l) ==
    IF readChar(l).ch \in {QUOTE, NUL} THEN readChar(l) ELSE readToQuote(readChar(l))

\* the slice taken one byte further than the closing quote's position
readStringPastQuote(l) ==
    [str |-> Substring(l.input, l.position + 1, readToQuote(l).position + 1),
     l |-> readChar(readToQuote(l))]

readString(l) ==
    [str |-> Substring(l.input, l.position + 1, readToQuote(l).position),
     l |-> readChar(readToQuote(l))]

Letters == {"i", "f", "F", "I", "_"}
Digits == {"0", "1"}
isLetter(ch) == ch \in Letters
isDigit(ch) == ch \in Digits
isIdentChar(ch) == IF isLetter(ch) THEN TRUE ELSE isDigit(ch)

RECURSIVE skipDigits(_)
skipDigits(l) == IF isDigit(l.ch) THEN skipDigits(readChar(l)) ELSE l

readNumber(l) ==
    [str |-> Substring(l.input, l.position, skipDigits(l).position), l |-> skipDigits(l)]

RECURSIVE skipIdentChars(_)
skipIdentChars(l) == IF isIdentChar(l.ch) THEN skipIdentChars(readChar(l)) ELSE l

\* the "[]" of an array type belongs to the identifier
skipBrackets(l) ==
    IF l.ch = "[" THEN IF peekChar(l) = "]" THEN readChar(readChar(l)) ELSE l ELSE l

readIdentifier(l) ==
    IF ~isLetter(l.ch) /\ l.ch # "_"
    THEN [str |-> <<>>, l |-> l]
    ELSE [str |-> Substring(l.input, l.position,
                            skipBrackets(skipIdentChars(readChar(l))).position),
          l |-> skipBrackets(skipIdentChars(readChar(l)))]

\* strings.ToLower
ToLowerByte(ch) == CASE ch = "F" -> "f" [] ch = "I" -> "i" [] OTHER -> ch
ToLower(s) == [i \in 1..Len(s) |-> ToLowerByte(s[i])]

\* the keywords the bytes of the model's inputs can spell come first
lookupIdent(ident) ==
    CASE ToLower(ident) = <<"i", "f">> -> "IF"
      [] ToLower(ident) = <<"l", "e", "t">> -> "LET"
      [] ToLower(ident) = <<"f", "n", "c">> -> "FNC"
      [] ToLower(ident) = <<"l", "o", "g">> -> "LOG"
      [] ToLower(ident) \in {<<"s", "t", "r", "i", "n", "g">>, <<"i", "n", "t">>,
                             <<"b", "o", "o", "l">>, <<"v", "o", "i", "d">>,
                             <<"i", "n", "t", "[", "]">>,
                             <<"s", "t", "r", "i", "n", "g", "[", "]">>,
                             <<"b", "o", "o", "l", "[", "]">>} -> "TYPE"
      [] ToLower(ident) \in {<<"t", "r", "u", "e">>, <<"f", "a", "l", "s", "e">>} -> "BOOL"
      [] ToLower(ident) = <<"r", "e", "t", "u", "r", "n">> -> "RETURN"
      [] ToLower(ident) = <<"n", "i", "l">> -> "NIL"
      [] ToLower(ident) = <<"e", "l", "i", "f">> -> "ELIF"
      [] ToLower(ident) = <<"e", "l", "s", "e">> -> "ELSE"
      [] ToLower(ident) = <<"w", "h", "i", "l", "e">> -> "WHILE"
      [] ToLower(ident) = <<"f", "o", "r">> -> "FOR"
      [] ToLower(ident) = <<"l", "e", "n">> -> "LEN"
      [] OTHER -> "IDENT"

Token(type, literal, line, col) ==
    [Type |-> type, Literal |-> literal, Line |-> line, Col |-> col]

\* the bytes that are a token by themselves, and the token's type
SingleByte ==
    [c \in {"(", ")", "{", "}", "+", "-", "*", "/", "%", ",", ";", "[", "]", ":"} |->
        CASE c = "(" -> "LPAREN" [] c = ")" -> "RPAREN"
          [] c = "{" -> "LBRACE" [] c = "}" -> "RBRACE"
          [] c = "," -> "COMMA" [] c = ";" -> "SEMICOLON"
          [] c = "[" -> "LBRACKET" [] c = "]" -> "RBRACKET"
          [] c = ":" -> "COLON"
          [] OTHER -> c]

\* a token that ends at the current byte: the final l.readChar() of NextToken
Emit(l, type, literal, startCol) ==
    [tok |-> Token(type, literal, l.line, startCol), l |-> readChar(l)]
\* a token of two bytes: l.readChar() in the case, then the final one
Emit2(l, type, literal, startCol) == Emit(readChar(l), type, literal, startCol)
\* a token read by readString, readIdentifier or readNumber, returned at once
Return(r, type, startCol) ==
    [tok |-> Token(type, r.str, r.l.line, startCol), l |-> r.l]

\* NextToken after skipWhitespace
scanToken(l, startCol) ==
    CASE l.ch = ">" ->
           IF peekChar(l) = ">"
           THEN Emit2(l, "ASSIGN_OP", <<l.ch, readChar(l).ch>>, startCol)
           ELSE IF peekChar(l) = "="
           THEN Emit2(l, "GTE", <<">", "=">>, startCol)
           ELSE Emit(l, "GT", <<">">>, startCol)
      [] l.ch = "<" ->
           IF peekChar(l) = "="
           THEN Emit2(l, "LTE", <<"<", "=">>, startCol)
           ELSE Emit(l, "LT", <<"<">>, startCol)
      [] l.ch = "=" ->
           IF peekChar(l) = "="
           THEN Emit2(l, "EQ", <<"=", "=">>, startCol)
           ELSE Emit(l, "ILLEGAL", <<l.ch>>, startCol)
      [] l.ch = "!" ->
           IF peekChar(l) = "="
           THEN Emit2(l, "NEQ", <<"!", "=">>, startCol)
           ELSE Emit(l, "ILLEGAL", <<l.ch>>, startCol)
      [] l.ch = QUOTE -> Return(readString(l), "STRING", startCol)
      [] l.ch \in DOMAIN SingleByte -> Emit(l, SingleByte[l.ch], <<l.ch>>, startCol)
      [] l.ch = "&" ->
           IF peekChar(l) = "&"
           THEN Emit2(l, "AND", <<"&", "&">>, startCol)
           ELSE Emit(l, "ILLEGAL", <<l.ch>>, startCol)
      [] l.ch = "|" ->
           IF peekChar(l) = "|"
           THEN Emit2(l, "OR", <<"|", "|">>, startCol)
           ELSE Emit(l, "ILLEGAL", <<l.ch>>, startCol)
      [] l.ch = NUL -> [tok |-> Token("EOF", <<>>, 0, 0), l |-> readChar(l)]
      [] OTHER ->
           IF isLetter(l.ch)
           THEN Return(readIdentifier(l), lookupIdent(readIdentifier(l).str), startCol)
           ELSE IF isDigit(l.ch)
           THEN Return(readNumber(l), "INT", startCol)
           ELSE Emit(l, "ILLEGAL", <<l.ch>>, startCol)

NextToken(l) == scanToken(skipWhitespace(l), skipWhitespace(l).col)

\* what lex holds while no lexer runs
LexerIdle == [l |-> LexerNew(<<>>), toks |-> <<>>, before |-> 0]

(***************************************************************************)
(* The parser (parser package).  The lexer is the token stream toks: the   *)
(* tokens before EOF, after which every token is EOF.  curToken is the     *)
(* token at pos, peekToken the one after it.  A token's Literal is its     *)
(* text as the AST keeps it: the name of an identifier or type as a        *)
(* sequence, the digits of an integer, the parts of a string.  Errors are  *)
(* kept without their line and column.                                     *)
(*                                                                         *)
(* A production yields [p, node]: the parser after it and the node.  A Go  *)
(* nil interface is NoExpr or NoStmt; a nil pointer of a node type held in *)
(* an interface is NilPtr(type), which is not equal to nil in Go.          *)
(*                                                                         *)
(* halt is "run" until the parser stops making progress: "spin" when a     *)
(* loop comes round with the parser at the token it was at the round       *)
(* before (the loop's rounds depend on nothing else, so it runs for ever,  *)
(* growing Errors), "panic" at a run-time panic.  A halted parser reads    *)
(* EOF and ignores nextToken and errors; what the productions make of it   *)
(* is dropped by ParseProgram.                                             *)
(***************************************************************************)
Tok(type, literal) == [Type |-> type, Literal |-> literal]
EOFToken == Tok("EOF", <<>>)

NilPtr(type) == [k |-> "nilptr", of |-> type]

\* New(l): curToken and peekToken are read
ParserNew(toks) == [toks |-> toks, pos |-> 1, Errors |-> <<>>, halt |-> "run"]

TokenAt(p, i) == IF p.halt = "run" /\ i <= Len(p.toks) THEN p.toks[i] ELSE EOFToken
curToken(p) == TokenAt(p, p.pos)
peekToken(p) == TokenAt(p, p.pos + 1)
Cur(p) == curToken(p).Type
Peek(p) == peekToken(p).Type

nextToken(p) ==
    IF p.halt = "run" /\ p.pos <= Len(p.toks) THEN [p EXCEPT !.pos = @ + 1] ELSE p

\* p.Errors = append(p.Errors, msg)
Error(p, msg) == IF p.halt = "run" THEN [p EXCEPT !.Errors = Append(@, msg)] ELSE p
Halt(p, how) == IF p.halt = "run" THEN [p EXCEPT !.halt = how] ELSE p

R(p, node) == [p |-> p, node |-> node]
Fail(p, msg, node) == R(Error(p, msg), node)

\* strconv.ParseInt(literal, 10, 64); the literals of the model are short
DigitValue ==
    ("0" :> 0) @@ ("1" :> 1) @@ ("2" :> 2) @@ ("3" :> 3) @@ ("4" :> 4)
    @@ ("5" :> 5) @@ ("6" :> 6) @@ ("7" :> 7) @@ ("8" :> 8) @@ ("9" :> 9)
ParseIntFails(literal) ==
    IF literal = <<>> THEN TRUE
    ELSE \E i \in 1..Len(literal) : literal[i] \notin DOMAIN DigitValue
RECURSIVE ParseInt(_)
ParseInt(literal) ==
    IF literal = <<>> THEN 0
    ELSE 10 * ParseInt(SubSeq(literal, 1, Len(literal) - 1)) + DigitValue[literal[Len(literal)]]

\* fields[fieldName] = fieldValue on a Go map kept as a sequence of pairs
RECURSIVE KeyIndex(_, _, _)
KeyIndex(pairs, key, i) ==
    IF i > Len(pairs) THEN 0
    ELSE IF pairs[i][1] = key THEN i
    ELSE KeyIndex(pairs, key, i + 1)
Put(pairs, key, val) ==
    IF KeyIndex(pairs, key, 1) = 0 THEN Append(pairs, <<key, val>>)
    ELSE [pairs EXCEPT ![KeyIndex(pairs, key, 1)] = <<key, val>>]
\* lit.Pairs[key] = value: the keys are pointers, equal only when both are nil
PutPair(pairs, key, val) ==
    IF key = NoExpr THEN Put(pairs, key, val) ELSE Append(pairs, <<key, val>>)

\* the productions that call each other in a cycle are entered through Ps
RECURSIVE Ps(_, _)
parseExpression(p) == Ps("parseExpression", p)
parsePrimary(p) == Ps("parsePrimary", p)
parseStatement(p) == Ps("parseStatement", p)
parseBlock(p) == Ps("parseBlock", p)

(***************************************************************************)
(* Expressions.                                                            *)
(***************************************************************************)
LogicalOps == {"AND", "OR"}
ComparisonOps == {"EQ", "NEQ", "LT", "GT", "LTE", "GTE"}
AdditiveOps == {"+", "-"}
MultiplicativeOps == {"/", "*", "%"}

\* left = &ast.BinaryExpression{Left: left, Operator: op, Right: right}
Combine(left, op, right) == R(right.p, BinaryExpression(left, op, right.node))

\* for curToken is an operator of the level { nextToken; right := operand() }
RECURSIVE multiplicativeLoop(_)
multiplicativeLoop(left) ==
    IF Cur(left.p) \in MultiplicativeOps
    THEN multiplicativeLoop(Combine(left.node, Cur(left.p), parsePrimary(nextToken(left.p))))
    ELSE left
parseMultiplicitave(p) == multiplicativeLoop(parsePrimary(p))

RECURSIVE additiveLoop(_)
\* the operand of the additive level taken from parsePrimary
additiveLoopFlat(left) ==
    IF Cur(left.p) \in AdditiveOps
    THEN additiveLoop(Combine(left.node, Cur(left.p), parsePrimary(nextToken(left.p))))
    ELSE left
additiveLoop(left) ==
    IF Cur(left.p) \in AdditiveOps
    THEN additiveLoop(Combine(left.node, Cur(left.p), parseMultiplicitave(nextToken(left.p))))
    ELSE left
parseAdditive(p) == additiveLoop(parseMultiplicitave(p))

RECURSIVE comparisonLoop(_)
comparisonLoop(left) ==
    IF Cur(left.p) \in ComparisonOps
    THEN comparisonLoop(Combine(left.node, Cur(left.p), parseAdditive(nextToken(left.p))))
    ELSE left
parseComparison(p) == comparisonLoop(parseAdditive(p))

RECURSIVE logicalLoop(_)
logicalLoop(left) ==
    IF Cur(left.p) \in LogicalOps
    THEN logicalLoop(Combine(left.node, Cur(left.p), parseComparison(nextToken(left.p))))
    ELSE left
parseLogical(p) == logicalLoop(parseComparison(p))

UnaryOf(op, right) == R(right.p, UnaryExpression(op, right.node))
RECURSIVE parseUnary(_)
parseUnary(p) ==
    IF Cur(p) \in {"NOT", "-"}
    THEN UnaryOf(Cur(p), parseUnary(nextToken(p)))
    ELSE parseLogical(p)

\* ---- struct literal: the fields between '{' and '}' --------------------
RECURSIVE structFields(_, _, _)
structFieldValue(name, fields, fieldName, r) ==
    structFields(IF Cur(r.p) = "COMMA" THEN nextToken(r.p) ELSE r.p,
                 name, Put(fields, fieldName, r.node))
structFields(p, name, fields) ==
    IF Cur(p) \notin {"RBRACE", "EOF"}
    THEN IF Cur(p) # "IDENT"
         THEN Fail(p, "expected field name in struct literal", NoExpr)
         ELSE IF Peek(p) # "COLON"
         THEN Fail(nextToken(p), "expected ':' after field name in struct literal", NoExpr)
         ELSE structFieldValue(name, fields, curToken(p).Literal[1],
                               parseExpression(nextToken(nextToken(p))))
    ELSE IF Cur(p) # "RBRACE"
    THEN Fail(p, "expected '}' at end of struct literal", NoExpr)
    ELSE R(nextToken(p), StructLiteral(name, fields))

parseStructLiteral(p, expectedType) ==
    IF Cur(p) # "LBRACE"
    THEN Fail(p, "expected '{' to begin struct literal", NoExpr)
    ELSE structFields(nextToken(p), expectedType, <<>>)

\* ---- identifier: dots, calls, indexes -----------------------------------
\* for curToken is '.': the names are joined while expr is an Identifier
RECURSIVE dotLoop(_, _)
dotLoop(p, expr) ==
    IF Cur(p) = "DOT"
    THEN IF Peek(p) # "IDENT"
         THEN Fail(nextToken(p), "expected identifier after '.'", NoExpr)
         ELSE dotLoop(nextToken(nextToken(p)),
                      Identifier(expr.Value \o peekToken(p).Literal))
    ELSE R(p, expr)

\* for curToken is ',' { nextToken; args = append(args, parseExpression()) }
RECURSIVE argsLoop(_, _)
argsLoop(r, args) ==
    IF Cur(r.p) = "COMMA"
    THEN argsLoop(parseExpression(nextToken(r.p)), Append(args, r.node))
    ELSE R(r.p, Append(args, r.node))
\* the arguments after '('
parseArgs(p) == IF Cur(p) # "RPAREN" THEN argsLoop(parseExpression(p), <<>>) ELSE R(p, <<>>)

\* for curToken is '(' ...
RECURSIVE callLoop(_)
callArgs(expr, args) ==
    IF Cur(args.p) # "RPAREN"
    THEN Fail(args.p, "expected ')' after function call", NoExpr)
    ELSE callLoop(R(nextToken(args.p), CallExpression(expr, args.node)))
callLoop(r) ==
    IF r.node = NoExpr THEN r
    ELSE IF Cur(r.p) = "LPAREN" THEN callArgs(r.node, parseArgs(nextToken(r.p)))
    ELSE r

\* for curToken is '[' ...: an index or a slice
RECURSIVE indexLoop(_)
sliceEnd(expr, start, end) ==
    IF Cur(end.p) # "RBRACKET"
    THEN Fail(end.p, "expected ']' after slice", NoExpr)
    ELSE indexLoop(R(nextToken(end.p), SliceExpression(expr, start, end.node)))
indexStart(expr, start) ==
    IF Cur(start.p) = "COLON"
    THEN sliceEnd(expr, start.node,
                  IF Peek(start.p) # "RBRACKET"
                  THEN parseExpression(nextToken(start.p))
                  ELSE R(nextToken(start.p), NoExpr))
    ELSE IF Cur(start.p) # "RBRACKET"
    THEN Fail(start.p, "expected ']' after index", NoExpr)
    ELSE indexLoop(R(nextToken(start.p), IndexExpression(expr, start.node)))
indexLoop(r) ==
    IF r.node = NoExpr THEN r
    ELSE IF Cur(r.p) = "LBRACKET"
    THEN indexStart(r.node, IF Peek(r.p) \notin {"COLON", "RBRACKET"}
                            THEN parseExpression(nextToken(r.p))
                            ELSE R(nextToken(r.p), NoExpr))
    ELSE r

\* case token.IDENT, token.LEN, token.INPUT
primaryIdent(p) ==
    IF Peek(p) = "LBRACE"
    THEN structFields(nextToken(nextToken(p)), curToken(p).Literal[1], <<>>)
    ELSE indexLoop(callLoop(dotLoop(nextToken(p), Identifier(curToken(p).Literal))))

\* ---- array literal ------------------------------------------------------
\* for curToken is not ']' and not EOF { append(parseExpression()); skip ',' }
RECURSIVE arrayLoop(_, _)
arrayElement(p, elements, r) ==
    IF r.p.pos = p.pos /\ Cur(r.p) # "COMMA"
    THEN R(Halt(r.p, "spin"), NoExpr)
    ELSE arrayLoop(IF Cur(r.p) = "COMMA" THEN nextToken(r.p) ELSE r.p,
                   Append(elements, r.node))
arrayLoop(p, elements) ==
    IF Cur(p) \notin {"RBRACKET", "EOF"}
    THEN arrayElement(p, elements, parseExpression(p))
    ELSE R(nextToken(p), ArrayLiteral(elements))

parenClose(r) ==
    IF Cur(r.p) # "RPAREN"
    THEN Fail(r.p, "expected ')' after expression", NoExpr)
    ELSE R(nextToken(r.p), r.node)

parsePrimaryImpl(p) ==
    CASE Cur(p) = "STRING" -> R(nextToken(p), StringLiteral(curToken(p).Literal))
      [] Cur(p) = "INT" ->
           IF ParseIntFails(curToken(p).Literal)
           THEN R(nextToken(Error(p, "invalid int literal")), NoExpr)
           ELSE R(nextToken(p), IntegerLiteral(ParseInt(curToken(p).Literal)))
      [] Cur(p) = "BOOL" -> R(nextToken(p), BoolLiteral(curToken(p).Literal = <<"true">>))
      [] Cur(p) \in {"IDENT", "LEN", "INPUT"} -> primaryIdent(p)
      [] Cur(p) = "LPAREN" -> parenClose(parseExpression(nextToken(p)))
      [] Cur(p) = "NIL" -> R(nextToken(p), NilLiteral)
      [] Cur(p) = "LBRACKET" -> arrayLoop(nextToken(p), <<>>)
      [] OTHER -> Fail(p, "[PARSE PRIMARY] unexpected token", NoExpr)

(***************************************************************************)
(* Statements.                                                             *)
(***************************************************************************)
\* n times nextToken
RECURSIVE Skip(_, _)
Skip(p, n) == IF n = 0 THEN p ELSE Skip(nextToken(p), n - 1)
\* the token n tokens after curToken
Ahead(p, n) == TokenAt(p, p.pos + n)

\* ---- map literal -------------------------------------------------------
RECURSIVE mapPairs(_, _, _, _)
mapPairValue(kt, vt, pairs, key, r) ==
    mapPairs(IF Cur(r.p) = "COMMA" THEN nextToken(r.p) ELSE r.p,
             kt, vt, PutPair(pairs, key, r.node))
mapPairKey(kt, vt, pairs, key) ==
    IF Cur(key.p) # "COLON"
    THEN Fail(key.p, "expected ':' after map key", NilPtr("MapLiteral"))
    ELSE mapPairValue(kt, vt, pairs, key.node, parseExpression(nextToken(key.p)))
mapPairs(p, kt, vt, pairs) ==
    IF Cur(p) \notin {"RBRACE", "EOF"}
    THEN mapPairKey(kt, vt, pairs, parseExpression(p))
    ELSE IF Cur(p) # "RBRACE"
    THEN Fail(p, "expected '}' at end of map literal", NilPtr("MapLiteral"))
    ELSE R(nextToken(p), MapLiteral(kt, vt, pairs))
parseMapLiteral(p, keyType, valueType) == mapPairs(nextToken(p), keyType, valueType, <<>>)

\* ---- let ---------------------------------------------------------------
LetOf(name, typ, value) == R(value.p, LetStatement(name, typ, value.node, ""))

\* curToken is "map" after ":>>": map [ keyType ] >> valueType { ... }
letMap(p, name) ==
    IF Ahead(p, 1).Type # "LBRACKET"
    THEN Fail(Skip(p, 1), "expected '[' after 'map'", NilPtr("LetStatement"))
    ELSE IF Ahead(p, 3).Type # "RBRACKET"
    THEN Fail(Skip(p, 3), "expected ']' after map key type", NilPtr("LetStatement"))
    ELSE IF Ahead(p, 4).Type # "ASSIGN_OP"
    THEN Fail(Skip(p, 4), "expected '>>' after map key type", NilPtr("LetStatement"))
    ELSE IF Ahead(p, 6).Type # "LBRACE"
    THEN Fail(Skip(p, 6), "expected '{' for map literal", NilPtr("LetStatement"))
    ELSE LetOf(name, MapOf(Ahead(p, 2).Literal, Ahead(p, 5).Literal),
               parseMapLiteral(Skip(p, 6), Ahead(p, 2).Literal, Ahead(p, 5).Literal))

\* curToken is the type
letTyped(p, name) ==
    IF Cur(p) \notin {"TYPE", "IDENT"}
    THEN Fail(p, "expected type", NilPtr("LetStatement"))
    ELSE IF Peek(p) # "ASSIGN_OP"
    THEN Fail(nextToken(p), "[PARSE LET STATEMENT] expected assignment operator '>>'",
              NilPtr("LetStatement"))
    ELSE LetOf(name, curToken(p).Literal,
               IF Ahead(p, 2).Type = "LBRACE"
               THEN parseStructLiteral(Skip(p, 2), TypeText(curToken(p).Literal))
               ELSE parseExpression(Skip(p, 2)))

\* curToken is the token after the name
letAfterName(p, name) ==
    IF Cur(p) = "COLON" /\ Peek(p) = "ASSIGN_OP"
    THEN IF Ahead(p, 2) = Tok("TYPE", <<"map">>)
         THEN letMap(Skip(p, 2), name)
         ELSE letTyped(Skip(p, 2), name)
    ELSE letTyped(p, name)

parseLetStatement(p) ==
    IF Cur(p) # "LET"
    THEN Fail(p, "expected 'let'", NilPtr("LetStatement"))
    ELSE IF Peek(p) # "IDENT"
    THEN Fail(nextToken(p), "expected identifier", NilPtr("LetStatement"))
    ELSE letAfterName(Skip(p, 2), peekToken(p).Literal)

\* ---- fnc ---------------------------------------------------------------
\* the parameters: node is [ok, params, paramTypes]
RECURSIVE paramsLoop(_, _, _)
paramsLoop(p, params, paramTypes) ==
    IF Cur(p) \notin {"RPAREN", "EOF"}
    THEN IF Cur(p) = "IDENT"
         THEN IF Peek(p) # "TYPE"
              THEN Fail(nextToken(p), "expected type after parameter", [ok |-> FALSE])
              ELSE paramsLoop(IF Ahead(p, 2).Type = "COMMA" THEN Skip(p, 3) ELSE Skip(p, 2),
                              Append(params, curToken(p).Literal),
                              Append(paramTypes, peekToken(p).Literal))
         ELSE Fail(p, "expected parameter identifier", [ok |-> FALSE])
    ELSE R(p, [ok |-> TRUE, params |-> params, paramTypes |-> paramTypes])

FnOf(name, sig, returnType, body) ==
    R(body.p, FunctionStatement(name, sig.params, sig.paramTypes, returnType, body.node, ""))

\* curToken is the token after the parameters
fnAfterParams(name, r) ==
    IF ~r.node.ok THEN R(r.p, NilPtr("FunctionStatement"))
    ELSE IF Cur(r.p) # "RPAREN"
    THEN Fail(r.p, "expected ')' after parameters", NilPtr("FunctionStatement"))
    ELSE IF Peek(r.p) # "ASSIGN_OP"
    THEN Fail(nextToken(r.p), "expected '>>' after ')'", NilPtr("FunctionStatement"))
    ELSE IF Ahead(r.p, 2).Type \notin {"TYPE", "IDENT", "FNCVOID"}
    THEN Fail(Skip(r.p, 2), "expected return type after '>>'", NilPtr("FunctionStatement"))
    ELSE IF Ahead(r.p, 3).Type # "LBRACE"
    THEN Fail(Skip(r.p, 3), "expected '{' after return type", NilPtr("FunctionStatement"))
    ELSE FnOf(name, r.node, Ahead(r.p, 2).Literal, parseBlock(Skip(r.p, 3)))

\* curToken is the last identifier of the name
fnAfterName(p, name) ==
    IF Peek(p) # "LPAREN"
    THEN Fail(nextToken(p), "expected '(' after function name", NilPtr("FunctionStatement"))
    ELSE fnAfterParams(name, paramsLoop(Skip(p, 2), <<>>, <<>>))

parseFunctionStatement(p) ==
    IF Peek(p) # "IDENT"
    THEN Fail(nextToken(p), "expected function name", NilPtr("FunctionStatement"))
    ELSE IF Ahead(p, 2).Type = "DOT"
    THEN IF Ahead(p, 3).Type # "IDENT"
         THEN Fail(Skip(p, 3), "expected method name after '.'", NilPtr("FunctionStatement"))
         ELSE fnAfterName(Skip(p, 3), peekToken(p).Literal \o Ahead(p, 3).Literal)
    ELSE fnAfterName(nextToken(p), peekToken(p).Literal)

\* ---- log, return -------------------------------------------------------
logValue(r) ==
    IF Cur(r.p) # "RPAREN"
    THEN Fail(r.p, "expected ')' after log argument", NilPtr("LogFunction"))
    ELSE R(nextToken(r.p), LogFunction(r.node))
parseLogFunctionStatement(p) ==
    IF Peek(p) # "LPAREN"
    THEN Fail(nextToken(p), "expected '(' after 'log'", NilPtr("LogFunction"))
    ELSE logValue(parseExpression(Skip(p, 2)))

ReturnOf(value) == R(value.p, ReturnStatement(value.node))
parseReturnStatement(p) == ReturnOf(parseExpression(nextToken(p)))

\* ---- if ----------------------------------------------------------------
\* what "return is" gives before the bodies are stored in the node
IfCondOnly(cond) == IfStatement(cond, <<>>, <<>>, <<>>, <<>>)

IfOf(cond, ifBody, conds, bodies, elseBody) ==
    R(elseBody.p, IfStatement(cond, ifBody, conds, bodies, elseBody.node))
ifElse(p, cond, ifBody, conds, bodies) ==
    IF Cur(p) = "ELSE"
    THEN IF Peek(p) # "LBRACE"
         THEN Fail(nextToken(p), "expected '{' after else", IfCondOnly(cond))
         ELSE IfOf(cond, ifBody, conds, bodies, parseBlock(nextToken(p)))
    ELSE R(p, IfStatement(cond, ifBody, conds, bodies, <<>>))

RECURSIVE elifLoop(_, _, _, _, _)
elifBody(cond, ifBody, conds, bodies, body) ==
    elifLoop(body.p, cond, ifBody, conds, Append(bodies, body.node))
elifCond(cond, ifBody, conds, bodies, c) ==
    IF Cur(c.p) # "LBRACE"
    THEN Fail(c.p, "expected '{' after elif condition", IfCondOnly(cond))
    ELSE elifBody(cond, ifBody, Append(conds, c.node), bodies, parseBlock(c.p))
elifLoop(p, cond, ifBody, conds, bodies) ==
    IF Cur(p) = "ELIF"
    THEN elifCond(cond, ifBody, conds, bodies, parseExpression(nextToken(p)))
    ELSE ifElse(p, cond, ifBody, conds, bodies)

ifBodyOf(cond, body) == elifLoop(body.p, cond, body.node, <<>>, <<>>)
ifCond(cond) ==
    IF Cur(cond.p) # "LBRACE"
    THEN Fail(cond.p, "expected '{' after if condition", NilPtr("IfStatement"))
    ELSE ifBodyOf(cond.node, parseBlock(cond.p))
parseIfStatement(p) == ifCond(parseExpression(nextToken(p)))

\* ---- assignment --------------------------------------------------------
AssignOf(left, name, value) ==
    R(value.p, [AssignmentStatement(left, value.node) EXCEPT !.Name = name])

\* Name when the target is an identifier or an indexed identifier, else ""
TargetName(left) ==
    IF left.k = "ident" THEN left.Value
    ELSE IF left.k = "index"
    THEN IF left.Left.k = "ident" THEN left.Left.Value ELSE <<>>
    ELSE <<>>

parseAssignmentStatementFrom(left) ==
    IF Cur(left.p) # "ASSIGN_OP"
    THEN Fail(left.p, "expected '>>' after assignment target", NilPtr("AssignmentStatement"))
    ELSE AssignOf(left.node, TargetName(left.node), parseExpression(nextToken(left.p)))

\* for curToken is '[' { nextToken; index; expect ']' }: node is the target
RECURSIVE targetLoop(_, _)
targetIndex(left, index) ==
    IF Cur(index.p) # "RBRACKET"
    THEN Fail(index.p, "expected ']' after index", NoExpr)
    ELSE targetLoop(nextToken(index.p), IndexExpression(left, index.node))
targetLoop(p, left) ==
    IF Cur(p) = "LBRACKET" THEN targetIndex(left, parseExpression(nextToken(p))) ELSE R(p, left)

assignTarget(left) ==
    IF left.node = NoExpr THEN R(left.p, NilPtr("AssignmentStatement"))
    ELSE IF Cur(left.p) # "ASSIGN_OP"
    THEN Fail(left.p, "expected '>>' after assignment target", NilPtr("AssignmentStatement"))
    ELSE AssignOf(left.node, IF left.node.k = "ident" THEN left.node.Value ELSE <<>>,
                  parseExpression(nextToken(left.p)))
parseAssignmentStatement(p) ==
    IF Cur(p) = "IDENT"
    THEN assignTarget(targetLoop(nextToken(p), Identifier(curToken(p).Literal)))
    ELSE Fail(p, "expected identifier or index expression", NilPtr("AssignmentStatement"))

\* ---- while, for --------------------------------------------------------
WhileOf(cond, body) == R(body.p, WhileStatement(cond, body.node))
whileCond(cond) ==
    IF Cur(cond.p) # "LBRACE"
    THEN Fail(cond.p, "expected '{' after while condition", NilPtr("WhileStatement"))
    ELSE WhileOf(cond.node, parseBlock(cond.p))
parseWhileStatement(p) == whileCond(parseExpression(nextToken(p)))

ForOf(init, cond, post, body) == R(body.p, ForStatement(init, cond, post, body.node))
forPostOf(init, cond, post) ==
    IF Cur(post.p) # "LBRACE"
    THEN Fail(post.p, "expected '{' after for-post", NilPtr("ForStatement"))
    ELSE ForOf(init, cond, post.node, parseBlock(post.p))
forCond(init, cond) ==
    IF Cur(cond.p) # "SEMICOLON"
    THEN Fail(cond.p, "expected ';' after for-condition", NilPtr("ForStatement"))
    ELSE IF Peek(cond.p) = "IDENT" /\ Ahead(cond.p, 2).Type = "ASSIGN_OP"
    THEN forPostOf(init, cond.node, parseAssignmentStatement(nextToken(cond.p)))
    ELSE Fail(nextToken(cond.p), "expected post statement in for loop", NilPtr("ForStatement"))
forInit(init) ==
    IF Cur(init.p) # "SEMICOLON"
    THEN Fail(init.p, "expected ';' after for-init", NilPtr("ForStatement"))
    ELSE forCond(init.node, parseExpression(nextToken(init.p)))
parseForStatement(p) ==
    IF Peek(p) = "LET" THEN forInit(parseLetStatement(nextToken(p)))
    ELSE IF Peek(p) = "IDENT" /\ Ahead(p, 2).Type = "ASSIGN_OP"
    THEN forInit(parseAssignmentStatement(nextToken(p)))
    ELSE Fail(nextToken(p), "expected init statement in for loop", NilPtr("ForStatement"))

\* ---- package, import ---------------------------------------------------
\* for peekToken is '.' { nextToken; nextToken; expect IDENT }: node is the
\* dotted name, <<>> when an identifier is missing
RECURSIVE dottedName(_, _)
dottedName(p, parts) ==
    IF Peek(p) = "DOT"
    THEN IF Ahead(p, 2).Type # "IDENT"
         THEN R(Skip(p, 2), <<>>)
         ELSE dottedName(Skip(p, 2), parts \o Ahead(p, 2).Literal)
    ELSE R(nextToken(p), parts)

packageName(r) ==
    IF r.node = <<>>
    THEN Fail(r.p, "expected identifier after '.' in package path", NilPtr("PackageStatement"))
    ELSE R(r.p, PackageStatement(r.node))
parsePackageStatement(p) ==
    IF Peek(p) # "IDENT"
    THEN Fail(nextToken(p), "expected package name after 'package'", NilPtr("PackageStatement"))
    ELSE packageName(dottedName(nextToken(p), peekToken(p).Literal))

importPath(r) ==
    IF r.node = <<>>
    THEN Fail(r.p, "expected identifier after '.' in import path", NilPtr("ImportStatement"))
    ELSE R(r.p, ImportStatement(r.node))
parseImportStatement(p) ==
    IF Peek(p) # "IDENT"
    THEN Fail(nextToken(p), "expected import path after 'import'", NilPtr("ImportStatement"))
    ELSE importPath(dottedName(nextToken(p), peekToken(p).Literal))

\* ---- struct ------------------------------------------------------------
RECURSIVE fieldsLoop(_, _, _)
fieldsLoop(p, name, fields) ==
    IF Cur(p) \notin {"RBRACE", "EOF"}
    THEN IF Cur(p) # "IDENT"
         THEN Fail(p, "expected field name", NilPtr("StructStatement"))
         ELSE IF Peek(p) \notin {"TYPE", "IDENT"}
         THEN Fail(nextToken(p), "expected type after ':'", NilPtr("StructStatement"))
         ELSE fieldsLoop(IF Ahead(p, 2).Type = "COMMA" THEN Skip(p, 3) ELSE Skip(p, 2),
                         name,
                         Append(fields, <<curToken(p).Literal[1], peekToken(p).Literal>>))
    ELSE IF Cur(p) # "RBRACE"
    THEN Fail(p, "expected '}' at end of struct declaration", NilPtr("StructStatement"))
    ELSE R(nextToken(p), StructStatement(name, fields))

\* curToken is the token after the name
structAfterName(p, name) ==
    IF Cur(p) # "LBRACE"
    THEN Fail(p, "expected '{' after struct name", NilPtr("StructStatement"))
    ELSE fieldsLoop(nextToken(p), name, <<>>)
parseStructStatement(p) ==
    IF Peek(p) # "IDENT"
    THEN Fail(nextToken(p), "expected struct name", NilPtr("StructStatement"))
    ELSE structAfterName(IF Ahead(p, 2).Type = "ASSIGN_OP" THEN Skip(p, 3) ELSE Skip(p, 2),
                         peekToken(p).Literal[1])

\* ---- break, continue ---------------------------------------------------
parseBreakStatement(p) == R(nextToken(p), BreakStatement)
parseContinueStatement(p) == R(nextToken(p), ContinueStatement)

\* ---- block -------------------------------------------------------------
ExprStmtOf(expr) == R(expr.p, ExpressionStatement(expr.node))
\* the default case at an identifier: a primary, upgraded to an assignment
identStatement(expr) ==
    IF Cur(expr.p) = "ASSIGN_OP" THEN parseAssignmentStatementFrom(expr) ELSE ExprStmtOf(expr)

\* the switch of parseBlock on curToken
parseStatementImpl(p) ==
    CASE Cur(p) = "LET" -> parseLetStatement(p)
      [] Cur(p) = "FNC" -> parseFunctionStatement(p)
      [] Cur(p) = "LOG" -> parseLogFunctionStatement(p)
      [] Cur(p) = "RETURN" -> parseReturnStatement(p)
      [] Cur(p) = "IF" -> parseIfStatement(p)
      [] Cur(p) = "WHILE" -> parseWhileStatement(p)
      [] Cur(p) = "FOR" -> parseForStatement(p)
      [] Cur(p) = "BREAK" -> parseBreakStatement(p)
      [] Cur(p) = "CONTINUE" -> parseContinueStatement(p)
      [] Cur(p) = "IDENT" -> identStatement(parsePrimary(p))
      [] OTHER -> ExprStmtOf(parseExpression(p))

\* for curToken is not '}' and not EOF { stmt; append }
RECURSIVE blockLoop(_, _)
\* a round that left the parser where it was comes round again for ever
blockStatement(p, stmts, r) ==
    IF r.p.pos = p.pos
    THEN R(Halt(r.p, "spin"), stmts)
    ELSE blockLoop(r.p, Append(stmts, r.node))
blockLoop(p, stmts) ==
    IF Cur(p) \notin {"RBRACE", "EOF"}
    THEN blockStatement(p, stmts, parseStatement(p))
    ELSE R(nextToken(p), stmts)
parseBlockImpl(p) == blockLoop(nextToken(p), <<>>)

Ps(f, p) ==
    CASE f = "parseExpression" -> parseUnary(p)
      [] f = "parsePrimary" -> parsePrimaryImpl(p)
      [] f = "parseStatement" -> parseStatementImpl(p)
      [] f = "parseBlock" -> parseBlockImpl(p)

(***************************************************************************)
(* ParseProgram: one round of its loop.  The result is [p, stmts].         *)
(***************************************************************************)
\* if stmt != nil { statements = append(statements, stmt) }
CollectedIfNotNil(stmts, r, nil) ==
    [p |-> r.p, stmts |-> IF r.node # nil THEN Append(stmts, r.node) ELSE stmts]

\* fn.Visibility = vis; statements = append(statements, fn)
PubOf(stmts, r) ==
    IF r.node.k = "nilptr"
    THEN [p |-> Halt(r.p, "panic"), stmts |-> stmts]
    ELSE [p |-> r.p, stmts |-> Append(stmts, [r.node EXCEPT !.Visibility = "pub"])]

\* curToken is the token after pub
afterPub(p, stmts) ==
    CASE Cur(p) = "FNC" -> PubOf(stmts, parseFunctionStatement(p))
      [] Cur(p) = "LET" -> PubOf(stmts, parseLetStatement(p))
      [] OTHER -> [p |-> nextToken(Error(p, "unexpected token after pub")), stmts |-> stmts]

parseTopLevel(p, stmts) ==
    CASE Cur(p) = "PUB" -> afterPub(nextToken(p), stmts)
      [] Cur(p) = "LET" -> CollectedIfNotNil(stmts, parseLetStatement(p), NoStmt)
      [] Cur(p) = "FNC" -> CollectedIfNotNil(stmts, parseFunctionStatement(p), NoStmt)
      [] Cur(p) = "LOG" -> CollectedIfNotNil(stmts, parseLogFunctionStatement(p), NoStmt)
      [] Cur(p) = "RETURN" -> CollectedIfNotNil(stmts, parseReturnStatement(p), NoStmt)
      [] Cur(p) = "IF" -> CollectedIfNotNil(stmts, parseIfStatement(p), NoStmt)
      [] Cur(p) = "IDENT" /\ Peek(p) \in {"ASSIGN_OP", "LBRACKET"} ->
           CollectedIfNotNil(stmts, parseAssignmentStatement(p), NoStmt)
      [] Cur(p) = "WHILE" -> CollectedIfNotNil(stmts, parseWhileStatement(p), NoStmt)
      [] Cur(p) = "FOR" -> CollectedIfNotNil(stmts, parseForStatement(p), NoStmt)
      [] Cur(p) = "PACKAGE" -> CollectedIfNotNil(stmts, parsePackageStatement(p), NoStmt)
      [] Cur(p) = "IMPORT" -> CollectedIfNotNil(stmts, parseImportStatement(p), NoStmt)
      [] Cur(p) = "BREAK" -> CollectedIfNotNil(stmts, parseBreakStatement(p), NoStmt)
      [] Cur(p) = "CONTINUE" -> CollectedIfNotNil(stmts, parseContinueStatement(p), NoStmt)
      [] Cur(p) = "STRUCT" ->
           CollectedIfNotNil(stmts, parseStructStatement(p), NilPtr("StructStatement"))
      [] OTHER -> [p |-> nextToken(Error(p, "[PARSE PROGRAM] unexpected token")),
                   stmts |-> stmts]

\* what par holds while no parser runs
ParserIdle == [p |-> ParserNew(<<>>), stmts |-> <<>>, pc |-> "idle"]

(***************************************************************************)
(* The driver (main.go, main): the state of one run of the interpreter.    *)
(***************************************************************************)
VARIABLES
    prog,       \* the descriptor of the project that is run
    console,    \* the lines main itself has printed to stdout
    loaded,     \* the paths loadAndParseFile has marked as loaded
    reads,      \* the paths os.ReadFile has been called with, in their order
    loadErr,    \* the error loadAndParseFile returned, "" for nil
    allStmts,   \* the combined statement list
    typeErrs,   \* the errors typechecker.Check returned
    pc,         \* where main is: "start", "load", "check", "top", "lookup",
                \* "main", "exit", "done" (the process has ended)
    idx,        \* the statement Eval's loop is at (1-based)
    st,         \* the interpreter state; st.out is what the program prints
    mainEnv,    \* the frame of main's body, 0 before it is made
    exit,       \* the exit status of the process, -1 while it runs
    lex,        \* a lexer, the tokens it has returned and where it was before
                \* the last call of NextToken
    par,        \* a parser, the statements ParseProgram has collected and
                \* where ParseProgram is
    chk         \* the runs of typechecker.Check on one statement list: the
                \* errors each returned and the maps the last one has left

vars == <<prog, console, loaded, reads, loadErr, allStmts, typeErrs, pc, idx, st, mainEnv, exit,
          lex, par, chk>>

GlobalEnv == 1

\* os.Args[1:], the configuration file and the files of the run
Args == ProjectArgs(prog)
Config == ProjectConfig(prog)
Fs == ProjectFiles(prog)

\* len(os.Args) < 2 || os.Args[1] != "run"
BadUsage(args) == IF Len(args) < 1 THEN TRUE ELSE args[1] # <<"run">>
\* the path of the main file
EntryPath(args) == IF Len(args) < 2 \/ args[2] = <<".">> THEN <<"main.tox">> ELSE args[2]

TypeCheckBanner == "Program passed type checking"

Init ==
    /\ prog \in Projects
    /\ console = <<>>
    /\ loaded = {}
    /\ reads = <<>>
    /\ loadErr = ""
    /\ allStmts = <<>>
    /\ typeErrs = <<>>
    /\ pc = "start"
    /\ idx = 1
    /\ st = NewState
    /\ mainEnv = 0
    /\ exit = -1
    /\ lex = LexerIdle
    /\ chk = CheckerIdle
    /\ par = ParserIdle

\* main.go 151-154: the usage text and exit status 1
Usage ==
    /\ pc = "start" /\ BadUsage(Args)
    /\ console' = Append(console, "Usage: tox run <path>")
    /\ pc' = "done"
    /\ exit' = 1
    /\ UNCHANGED <<lex, par, chk, prog, loaded, reads, loadErr, allStmts, typeErrs, idx, st, mainEnv>>

\* main.go 157-169: the path and loadConfig
LoadConfig ==
    /\ pc = "start" /\ ~BadUsage(Args)
    /\ IF Config.status # "ok"
       THEN /\ console' = Append(console, "Error loading tox.config.json: " \o Config.status)
            /\ pc' = "done"
            /\ exit' = 1
       ELSE /\ pc' = "load"
            /\ UNCHANGED <<console, exit>>
    /\ UNCHANGED <<lex, par, chk, prog, loaded, reads, loadErr, allStmts, typeErrs, idx, st, mainEnv>>

\* main.go 172-178: loadAndParseFile(path, loaded, config, &allStmts)
Load ==
    /\ pc = "load"
    /\ LET r == loadAndParseFile(EntryPath(Args), {}, <<>>, Config, Fs)
       IN /\ loaded' = r.loaded
          /\ reads' = r.reads
          /\ loadErr' = r.err
          /\ IF r.err = "panic"
             THEN /\ pc' = "done"
                  /\ exit' = 2
                  /\ UNCHANGED <<console, allStmts>>
             ELSE IF r.err # ""
             THEN /\ console' = Append(console, "Import error: " \o r.err)
                  /\ pc' = "done"
                  /\ exit' = 1
                  /\ UNCHANGED allStmts
             ELSE /\ allStmts' = r.allStmts
                  /\ pc' = "check"
                  /\ UNCHANGED <<console, exit>>
    /\ UNCHANGED <<lex, par, chk, prog, typeErrs, idx, st, mainEnv>>

\* len(errors) > 0
hasTypeErrorsIgnored(errors) == FALSE

hasTypeErrors(errors) == Len(errors) > 0

\* main.go 181-191: typechecker.Check(allStmts), then NewEnvironment()
TypeCheck ==
    /\ pc = "check"
    /\ LET errors == Check(allStmts)
       IN /\ typeErrs' = errors
          /\ IF \E i \in 1..Len(errors) : errors[i] = TypeErrorPanic
             THEN /\ pc' = "done"
                  /\ exit' = 2
                  /\ UNCHANGED <<console, st, idx>>
             ELSE IF hasTypeErrors(errors)
             THEN /\ console' = console \o <<"Type errors:">>
                                \o [i \in 1..Len(errors) |-> "  - " \o errors[i]]
                  /\ pc' = "done"
                  /\ exit' = 1
                  /\ UNCHANGED <<st, idx>>
             ELSE /\ console' = console \o <<TypeCheckBanner, "">>
                  /\ st' = NewEnvironment(NewState)
                  /\ idx' = 1
                  /\ pc' = "top"
                  /\ UNCHANGED exit
    /\ UNCHANGED <<lex, par, chk, prog, loaded, reads, loadErr, allStmts, mainEnv>>

\* evaluator.Eval(allStmts, env): one round of its loop
EvalTopStmt ==
    /\ pc = "top" /\ Running(st) /\ idx <= Len(allStmts)
    /\ LET r == EvalStmt(allStmts[idx], GlobalEnv, st)
       IN /\ st' = r.st
          /\ idx' = IF r.ret THEN Len(allStmts) + 1 ELSE idx + 1
    /\ UNCHANGED <<lex, par, chk, prog, console, loaded, reads, loadErr, allStmts, typeErrs, pc, mainEnv, exit>>

EvalTopEnd ==
    /\ pc = "top" /\ Running(st) /\ idx > Len(allStmts)
    /\ pc' = "lookup"
    /\ UNCHANGED <<lex, par, chk, prog, console, loaded, reads, loadErr, allStmts, typeErrs, idx, st, mainEnv, exit>>

MainFn(s) == Get(s.frames, GlobalEnv, <<"main">>)
HasMain(s) == MainFn(s).ok /\ MainFn(s).val.t = "fn"

\* main exists: mainEnv := NewEnclosedEnvironment(env)
EnterMain ==
    /\ pc = "lookup" /\ HasMain(st)
    /\ st' = NewEnclosedEnvironment(st, GlobalEnv)
    /\ mainEnv' = LastEnv(st')
    /\ pc' = "main"
    /\ idx' = 1
    /\ UNCHANGED <<lex, par, chk, prog, console, loaded, reads, loadErr, allStmts, typeErrs, exit>>

NoMain ==
    /\ pc = "lookup" /\ ~HasMain(st)
    /\ pc' = "exit"
    /\ UNCHANGED <<lex, par, chk, prog, console, loaded, reads, loadErr, allStmts, typeErrs, idx, st, mainEnv, exit>>

MainBody == MainFn(st).val.v.Body

\* evaluator.Eval(fnStmt.Body, mainEnv): one round of its loop
MainStmt ==
    /\ pc = "main" /\ Running(st) /\ idx <= Len(MainBody)
    /\ LET r == EvalStmt(MainBody[idx], mainEnv, st)
       IN /\ st' = r.st
          /\ idx' = IF r.ret THEN Len(MainBody) + 1 ELSE idx + 1
    /\ UNCHANGED <<lex, par, chk, prog, console, loaded, reads, loadErr, allStmts, typeErrs, pc, mainEnv, exit>>

MainEnd ==
    /\ pc = "main" /\ Running(st) /\ idx > Len(MainBody)
    /\ pc' = "exit"
    /\ UNCHANGED <<lex, par, chk, prog, console, loaded, reads, loadErr, allStmts, typeErrs, idx, st, mainEnv, exit>>

\* main returns: exit status 0
ExitOk ==
    /\ pc = "exit"
    /\ pc' = "done"
    /\ exit' = 0
    /\ UNCHANGED <<lex, par, chk, prog, console, loaded, reads, loadErr, allStmts, typeErrs, idx, st, mainEnv>>

\* a Go panic in the evaluator ends the process with status 2
Crash ==
    /\ pc \in {"top", "main"} /\ st.halt = "panic"
    /\ pc' = "done"
    /\ exit' = 2
    /\ UNCHANGED <<lex, par, chk, prog, console, loaded, reads, loadErr, allStmts, typeErrs, idx, st, mainEnv>>

\* the run went past MaxSteps: the model follows it no further
CutOff ==
    /\ pc \in {"top", "main"} /\ st.halt = "bound"
    /\ pc' = "cut"
    /\ UNCHANGED <<lex, par, chk, prog, console, loaded, reads, loadErr, allStmts, typeErrs, idx, st, mainEnv, exit>>

Next ==
    \/ Usage
    \/ LoadConfig
    \/ Load
    \/ TypeCheck
    \/ EvalTopStmt
    \/ EvalTopEnd
    \/ EnterMain
    \/ NoMain
    \/ MainStmt
    \/ MainEnd
    \/ ExitOk
    \/ Crash
    \/ CutOff

Spec == Init /\ [][Next]_vars

\* The evaluator alone, entered as main enters it, on statement lists the
\* parser can produce whether or not typechecker.Check accepts them.
InitEval ==
    /\ prog \in Programs
    /\ console = <<>>
    /\ loaded = {}
    /\ reads = <<>>
    /\ loadErr = ""
    /\ allStmts = Build(prog)
    /\ typeErrs = <<>>
    /\ pc = "top"
    /\ idx = 1
    /\ st = NewEnvironment(NewState)
    /\ mainEnv = 0
    /\ exit = -1
    /\ lex = LexerIdle
    /\ chk = CheckerIdle
    /\ par = ParserIdle

NextEval ==
    \/ EvalTopStmt
    \/ EvalTopEnd
    \/ EnterMain
    \/ NoMain
    \/ MainStmt
    \/ MainEnd
    \/ ExitOk
    \/ Crash
    \/ CutOff

SpecEval == InitEval /\ [][NextEval]_vars

\* the process has ended after main returned
Finished == pc = "done" /\ exit = 0


(***************************************************************************)
(* The lexer alone: lexer.New(input), then NextToken until it returns EOF, *)
(* as parser.New and nextToken call it.                                    *)
(***************************************************************************)
\* the longest input
MaxInput == 4
LexBytes == {"i", "F", "1", " ", LF, "/", QUOTE, ">", "=", "[", "]", NUL}
LexInputs == UNION {[1..n -> LexBytes] : n \in 0..MaxInput}

\* the variables of the driver while it does not run
DriverIdle ==
    /\ prog = [fam |-> "none", a |-> 0, b |-> 0, c |-> 0]
    /\ console = <<>>
    /\ loaded = {}
    /\ reads = <<>>
    /\ loadErr = ""
    /\ allStmts = <<>>
    /\ typeErrs = <<>>
    /\ pc = "idle"
    /\ idx = 1
    /\ st = NewState
    /\ mainEnv = 0
    /\ exit = -1
    /\ chk = CheckerIdle

DriverVars == <<prog, console, loaded, reads, loadErr, allStmts, typeErrs, pc, idx, st, mainEnv, exit,
               chk>>

InitLex ==
    /\ DriverIdle
    /\ par = ParserIdle
    /\ \E input \in LexInputs : lex = [l |-> LexerNew(input), toks |-> <<>>, before |-> 0]

\* the bytes of the input the lexer is past
Consumed(l) == IF l.position < Len(l.input) THEN l.position ELSE Len(l.input)

ReturnedEOF(toks) == IF toks = <<>> THEN FALSE ELSE toks[Len(toks)].Type = "EOF"

\* one call of l.NextToken()
CallNextToken ==
    /\ ~ReturnedEOF(lex.toks)
    /\ lex' = [l |-> NextToken(lex.l).l,
               toks |-> Append(lex.toks, NextToken(lex.l).tok),
               before |-> Consumed(lex.l)]
    /\ UNCHANGED <<par, DriverVars>>

NextLex == CallNextToken

SpecLex == InitLex /\ [][NextLex]_vars

(***************************************************************************)
(* The parser alone: parser.New(l), then ParseProgram round by round.      *)
(***************************************************************************)
T(type) == Tok(type, <<>>)
Ident(name) == Tok("IDENT", <<name>>)
IntTok(digits) == Tok("INT", digits)
TypeTok(name) == Tok("TYPE", <<name>>)

GoodLet == <<T("LET"), Ident("a"), TypeTok("int"), T("ASSIGN_OP"), IntTok(<<"1">>)>>
EmptyFnc ==
    <<T("FNC"), Ident("f"), T("LPAREN"), T("RPAREN"), T("ASSIGN_OP"), TypeTok("void"),
      T("LBRACE"), T("RBRACE")>>

\* top-level constructs, well-formed and not
Snippets ==
    { GoodLet,
      <<T("LET"), IntTok(<<"1">>)>>,
      <<T("PUB")>> \o GoodLet,
      <<T("PUB"), T("LET"), IntTok(<<"1">>)>>,
      <<T("PUB")>> \o EmptyFnc,
      <<T("PUB"), T("FNC"), IntTok(<<"1">>)>>,
      <<T("PUB"), IntTok(<<"1">>)>>,
      EmptyFnc,
      <<T("FNC"), Ident("T"), T("DOT"), Ident("m"), T("LPAREN"), Ident("self"), TypeTok("int"),
        T("COMMA"), Ident("q"), TypeTok("int"), T("RPAREN"), T("ASSIGN_OP"), TypeTok("int"),
        T("LBRACE"), T("RETURN"), Ident("q"), T("RBRACE")>>,
      SubSeq(EmptyFnc, 1, 7) \o <<T("RPAREN"), T("RBRACE")>>,
      <<T("RETURN"), T("LBRACKET"), T("RPAREN")>>,
      <<T("RETURN"), T("LBRACKET"), IntTok(<<"1">>), T("COMMA"), IntTok(<<"2">>), T("RBRACKET")>>,
      <<T("LOG"), T("LPAREN"), Tok("STRING", <<[lit |-> "s"]>>), T("RPAREN")>>,
      <<T("LOG"), IntTok(<<"1">>)>>,
      <<T("BREAK")>>,
      <<T("CONTINUE")>>,
      <<T("RPAREN")>>,
      <<T("STRUCT"), Ident("T"), T("LBRACE"), Ident("f"), TypeTok("int"), T("RBRACE")>>,
      <<T("STRUCT"), IntTok(<<"1">>)>>,
      <<Ident("a"), T("ASSIGN_OP"), IntTok(<<"1">>)>>,
      <<Ident("a"), T("LBRACKET"), IntTok(<<"0">>), T("RBRACKET"), T("ASSIGN_OP"), T("NIL")>>,
      <<Ident("a"), T("LBRACKET"), T("RPAREN")>>,
      <<T("WHILE"), Tok("BOOL", <<"true">>), T("LBRACE"), T("BREAK"), T("RBRACE")>>,
      <<T("WHILE"), IntTok(<<"1">>), T("LBRACE"), T("+"), T("RBRACE")>>,
      <<T("IF"), IntTok(<<"1">>), T("LBRACE"), T("RBRACE"), T("ELIF"), IntTok(<<"2">>),
        T("LBRACE"), T("RBRACE"), T("ELSE"), T("LBRACE"), T("RBRACE")>>,
      <<T("IF"), IntTok(<<"1">>), T("LBRACE"), T("RBRACE"), T("ELSE"), IntTok(<<"2">>)>>,
      <<T("FOR"), T("LET"), Ident("i"), TypeTok("int"), T("ASSIGN_OP"), IntTok(<<"0">>),
        T("SEMICOLON"), Ident("i"), T("SEMICOLON"), Ident("i"), T("ASSIGN_OP"),
        IntTok(<<"1">>), T("LBRACE"), T("RBRACE")>>,
      <<T("FOR"), T("LET"), IntTok(<<"1">>)>>,
      <<T("PACKAGE"), Ident("a"), T("DOT"), Ident("b")>>,
      <<T("IMPORT"), Ident("a"), T("DOT")>>,
      <<T("LET"), Ident("m"), T("COLON"), T("ASSIGN_OP"), TypeTok("map"), T("LBRACKET"),
        TypeTok("string"), T("RBRACKET"), T("ASSIGN_OP"), TypeTok("int"), T("LBRACE"),
        IntTok(<<"1">>), T("COLON"), IntTok(<<"2">>), T("RBRACE")>>,
      <<T("LET"), Ident("u"), Ident("T"), T("ASSIGN_OP"), T("LBRACE"), Ident("f"),
        T("COLON"), IntTok(<<"1">>), T("RBRACE")>>,
      <<T("RETURN"), Ident("a"), T("DOT"), Ident("b"), T("LPAREN"), IntTok(<<"1">>),
        T("COMMA"), T("LPAREN"), IntTok(<<"2">>), T("RPAREN"), T("RPAREN"), T("LBRACKET"),
        IntTok(<<"1">>), T("COLON"), T("RBRACKET"), T("LBRACKET"), IntTok(<<"0">>),
        T("RBRACKET")>>,
      <<T("RETURN"), T("NOT"), T("-"), IntTok(<<"1", "2">>)>> }

\* how many of the snippets one input joins
MaxSnippets == 2
RECURSIVE Joined(_)
Joined(n) ==
    IF n = 0 THEN {<<>>}
    ELSE Joined(n - 1) \cup {s \o t : s \in Joined(n - 1), t \in Snippets}

\* every short stream over some token types
MaxTokens == 3
StrayTokens ==
    {T("LET"), T("PUB"), T("RETURN"), T("WHILE"), Ident("a"), TypeTok("int"), T("ASSIGN_OP"),
     IntTok(<<"1">>), T("LBRACE"), T("RBRACE"), T("RPAREN"), T("LBRACKET"), T("COMMA")}
ShortStreams == UNION {[1..n -> StrayTokens] : n \in 0..MaxTokens}

\* return x op1 y op2 z, the operands integers or identifiers
BinaryOps == LogicalOps \cup ComparisonOps \cup AdditiveOps \cup MultiplicativeOps
ChainOperands ==
    {<<IntTok(<<"1">>), IntTok(<<"2">>), IntTok(<<"3">>)>>,
     <<Ident("a"), Ident("b"), Ident("c")>>}
Chain(xs, op1, op2) == <<T("RETURN"), xs[1], T(op1), xs[2], T(op2), xs[3]>>
Chains == {Chain(xs, op1, op2) : xs \in ChainOperands, op1 \in BinaryOps, op2 \in BinaryOps}

ParseInputs == Joined(MaxSnippets) \cup ShortStreams \cup Chains

InitParse ==
    /\ DriverIdle
    /\ lex = LexerIdle
    /\ \E toks \in ParseInputs : par = [p |-> ParserNew(toks), stmts |-> <<>>, pc |-> "parse"]

\* one round of the loop of ParseProgram; a parser that has halted has
\* collected nothing in the round
ParseRound ==
    /\ par.pc = "parse" /\ Cur(par.p) # "EOF"
    /\ LET r == parseTopLevel(par.p, par.stmts)
       IN par' = IF r.p.halt = "run"
                 THEN [p |-> r.p, stmts |-> r.stmts, pc |-> "parse"]
                 ELSE [p |-> r.p, stmts |-> par.stmts, pc |-> r.p.halt]
    /\ UNCHANGED <<lex, DriverVars>>

\* curToken is EOF: return statements
ParseReturn ==
    /\ par.pc = "parse" /\ Cur(par.p) = "EOF"
    /\ par' = [par EXCEPT !.pc = "done"]
    /\ UNCHANGED <<lex, DriverVars>>

NextParse ==
    \/ ParseRound
    \/ ParseReturn

SpecParse == InitParse /\ [][NextParse]_vars

(***************************************************************************)
(* The type checker alone: typechecker.Check called on a statement list,   *)
(* and called again on the same list.                                      *)
(***************************************************************************)
\* fam "nest": f returns g(); g is declared inside the body of main, which
\* follows f (a = 1), or at top level (a = 2)
NestG == Fnc("g", <<>>, <<>>, TInt, <<ReturnStatement(Num(1))>>)
NestProgram(a) ==
    (IF a = 2 THEN <<NestG>> ELSE <<>>)
    \o <<Fnc("f", <<>>, <<>>, TInt, <<ReturnStatement(Call("g", <<>>))>>),
         Main((IF a = 1 THEN <<NestG>> ELSE <<>>) \o <<Log(Call("f", <<>>))>>)>>

\* fam "brk": main executes the signal b (1 break, 2 continue) at the place
\* a: 1 the top of its body, 2 an if body, 3 an else body, 4 an elif body,
\* 5 a while body, 6 a for body, 7 an if body in a while body, 8 the body of
\* a function declared in a while body, 9 an if body in an if body
BrkPlace(a, sig) ==
    CASE a = 1 -> sig
      [] a = 2 -> If(BoolLiteral(TRUE), <<sig>>)
      [] a = 3 -> IfStatement(BoolLiteral(FALSE), <<>>, <<>>, <<>>, <<sig>>)
      [] a = 4 -> IfStatement(BoolLiteral(FALSE), <<>>, <<BoolLiteral(TRUE)>>, <<<<sig>>>>, <<>>)
      [] a = 5 -> WhileStatement(BoolLiteral(TRUE), <<sig>>)
      [] a = 6 -> ForTo(2, <<sig>>)
      [] a = 7 -> WhileStatement(BoolLiteral(TRUE), <<If(BoolLiteral(TRUE), <<sig>>)>>)
      [] a = 8 -> WhileStatement(BoolLiteral(FALSE),
                                 <<Fnc("g", <<>>, <<>>, TVoid, <<sig>>)>>)
      [] a = 9 -> If(BoolLiteral(TRUE), <<If(BoolLiteral(TRUE), <<sig>>)>>)
BrkProgram(a, b) == <<Main(<<BrkPlace(a, SigStmt(b)), Log(Num(1))>>)>>

\* fam "fasg": main assigns to the qualified target of the kind a: 1 u.f
\* with a value of the field's type, 2 w.f where w is declared nowhere, 3 n.f
\* where n is an int, 4 u.g where T has no field g, 5 u.f with a String
FasgTarget(a) ==
    CASE a \in {1, 5} -> <<"u", "f">>
      [] a = 2 -> <<"w", "f">>
      [] a = 3 -> <<"n", "f">>
      [] a = 4 -> <<"u", "g">>
FasgProgram(a) ==
    <<StructStatement("T", <<<<"f", TInt>>>>),
      Main(<<Let("u", StructType("T"), StructLiteral("T", <<<<"f", Num(0)>>>>)),
             Let("n", TInt, Num(0)),
             AssignmentStatement(Identifier(FasgTarget(a)),
                                 IF a = 5 THEN Str("s") ELSE Num(5))>>)>>

\* fam "rt": the function f with the return type b (1 void, 2 int) returns
\* the value c (1 none, 2 nil, 3 an Int, 4 a String) at the place a of
\* BrkPlace
RtValue(c) ==
    CASE c = 1 -> NoExpr
      [] c = 2 -> NilLiteral
      [] c = 3 -> Num(1)
      [] c = 4 -> Str("s")
RtProgram(a, b, c) ==
    <<Fnc("f", <<>>, <<>>, IF b = 1 THEN TVoid ELSE TInt,
          <<BrkPlace(a, ReturnStatement(RtValue(c)))>>),
      Main(<<>>)>>

\* fam "ifchk": main holds, at the place a of BrkPlace (2 an if body, 3 an
\* else body, 4 an elif body), the statement b: 1 a let of an int with a
\* String, 2 an assignment to a name declared nowhere, 3 a call of a
\* function declared nowhere, 4 a let of an int with an Int
IfChkStmt(b) ==
    CASE b = 1 -> Let("y", TInt, Str("s"))
      [] b = 2 -> Assign("zz", Num(1))
      [] b = 3 -> ExpressionStatement(Call("nope", <<>>))
      [] b = 4 -> Let("y", TInt, Num(1))
IfChkProgram(a, b) == <<Main(<<BrkPlace(a, IfChkStmt(b))>>)>>

BuildChecked(d) ==
    CASE d.fam = "nest" -> NestProgram(d.a)
      [] d.fam = "brk" -> BrkProgram(d.a, d.b)
      [] d.fam = "fasg" -> FasgProgram(d.a)
      [] d.fam = "rt" -> RtProgram(d.a, d.b, d.c)
      [] d.fam = "ifchk" -> IfChkProgram(d.a, d.b)
      [] OTHER -> Build(d)

\* the programs the type checker is run on
CheckedPrograms ==
    Programs
    \cup {Desc("nest", a, 0, 0) : a \in 1..2}
    \cup {Desc("brk", a, b, 0) : a \in 1..9, b \in 1..2}
    \cup {Desc("fasg", a, 0, 0) : a \in 1..5}
    \cup {Desc("rt", a, b, c) : a \in {1, 2, 3, 4, 5, 6, 7, 9}, b \in 1..2, c \in 1..4}
    \cup {Desc("ifchk", a, b, 0) : a \in 2..4, b \in 1..4}

\* how often Check is called on the statement list
MaxRuns == 2

InitCheck ==
    /\ prog \in CheckedPrograms
    /\ console = <<>>
    /\ loaded = {}
    /\ reads = <<>>
    /\ loadErr = ""
    /\ allStmts = <<>>
    /\ typeErrs = <<>>
    /\ pc = "idle"
    /\ idx = 1
    /\ st = NewState
    /\ mainEnv = 0
    /\ exit = -1
    /\ lex = LexerIdle
    /\ par = ParserIdle
    /\ chk = [stmts |-> BuildChecked(prog), runs |-> <<>>, left |-> NoMaps]

\* errors := typechecker.Check(stmts)
CallCheck ==
    /\ Len(chk.runs) < MaxRuns
    /\ chk' = [stmts |-> chk.stmts,
               runs |-> Append(chk.runs, CheckRun(chk.stmts, chk.left).errs),
               left |-> CheckRun(chk.stmts, chk.left).left]
    /\ UNCHANGED <<prog, console, loaded, reads, loadErr, allStmts, typeErrs, pc, idx, st, mainEnv,
                   exit, lex, par>>

NextCheck == CallCheck

SpecCheck == InitCheck /\ [][NextCheck]_vars
(***************************************************************************)
(* Properties.                                                             *)
(***************************************************************************)
\* the frames of the run that bind the name
FramesBinding(name) == {i \in 1..Len(st.frames) : name \in DOMAIN st.frames[i].store}

\* 0 + 1 + ... over the i below n and below b that differ from c
RECURSIVE SumSkipping(_, _, _, _)
SumSkipping(n, b, c, i) ==
    IF i >= n \/ i = b THEN 0
    ELSE (IF i = c THEN 0 ELSE i) + SumSkipping(n, b, c, i + 1)

\* C1: a break or continue executed inside an if body nested in a for body
\* reaches the loop: break at i == b ends it and continue at i == c skips
\* the rest of the iteration, so the loop of scenario 5 (n = 10, b = 5,
\* c = 2) ends with s = 8 and the program prints 8.
C1_SignalReachesLoop ==
    (prog.fam = "s5" /\ Finished)
        => st.out = <<ToString(SumSkipping(prog.a, prog.b, prog.c, 0))>>

\* C2: a break or continue produced while a called function's body is
\* evaluated is never seen by the caller: the call yields an ordinary value
\* (no name is ever bound to a signal) and the caller's loop makes all of
\* its three rounds, adding the 7 the function returns each time.
C2_SignalStaysInCallee ==
    prog.fam = "sig"
        => /\ \A i \in 1..Len(st.frames) : \A n \in DOMAIN st.frames[i].store :
                 ~IsSignal(st.frames[i].store[n])
           /\ Finished => st.out = <<"21">>

\* a function whose body begins with a break was called three times from a
\* for loop and the loop went on
C2_Witness ==
    /\ prog.fam = "sig" /\ prog.a = 1 /\ prog.b = 1 /\ prog.c = 1
    /\ Finished
    /\ st.out = <<"21">>

\* C3: a return executed in a function body at any nesting depth (directly,
\* in an if or else body, in a while or for body) makes the call yield the
\* returned value b, and no later statement of the body runs: the program
\* prints b and never "after".
C3_ReturnEndsCall ==
    (prog.fam = "ret" /\ Finished) => st.out = <<ToString(prog.b)>>

\* C4: the callee's frame is enclosed over the global frame: a name bound
\* only in a local frame of the caller is unresolved in the callee (reading
\* it gives the error text), an assignment to it in the callee binds it in
\* the callee's own frame, whose parent is the global frame, and the
\* caller's binding keeps its value 1.
C4_CalleeOverGlobals ==
    prog.fam = "scope"
        => /\ \A i \in FramesBinding(<<"x">>) :
                 st.frames[i].store[<<"x">>] = IntV(5)
                     => st.frames[i].parent = GlobalEnv /\ i # mainEnv
           /\ Finished
                 => st.out = <<IF prog.c = 1 THEN ErrNotExist(<<"x">>).v ELSE "5", "1">>

\* the method of a global struct, called from main, assigned to the x of
\* main and logged it; main then logged its own x
C4_Witness ==
    /\ prog.fam = "scope" /\ prog.a = 2 /\ prog.b = 1 /\ prog.c = 2
    /\ Finished
    /\ st.out = <<"5", "1">>
    /\ Get(st.frames, mainEnv, <<"x">>).val = IntV(1)

\* C5: after a block that declares x with let (an if, elif or else body, a
\* while body, a for loop) has finished, x resolves in the enclosing scope
\* of main to what it resolved to before the block: to 1 where main had
\* declared x >> 1, and to nothing where it had not.
C5_BlockLetDoesNotLeak ==
    (prog.fam = "block" /\ pc \in {"exit", "done"})
        => Get(st.frames, mainEnv, <<"x">>)
             = IF prog.b = 1 THEN [val |-> IntV(1), ok |-> TRUE]
               ELSE [val |-> Nil, ok |-> FALSE]

\* C6: arrays, maps and structs are shared by reference: after a second
\* name is bound to the value by let, by assignment or by argument passing,
\* the element, entry or field set to 99 through one binding is read
\* through the other binding as 99.
C6_AliasSharing ==
    (prog.fam = "alias" /\ Finished) => st.out = <<"99">>

\* after let ys int[] >> xs and xs[0] >> 99, log(ys[0]) printed 99
C6_Witness ==
    /\ prog.fam = "alias" /\ prog.a = 1 /\ prog.b = 1 /\ prog.c = 1
    /\ Finished
    /\ st.out = <<"99">>

\* C7: evaluating a binary expression never aborts the interpreter,
\* whatever the operator and the runtime values of the operands (a zero
\* divisor, two arrays or two maps under == included).
C7_BinaryNeverAborts ==
    prog.fam = "bin" => st.halt # "panic"

\* C8: u.m(a, b) on a struct u whose _struct slot is T runs the body of T.m
\* in a fresh frame over the global frame in which this is u, the first
\* parameter is u and the next parameters are the values of a and b; the
\* method's this.f >> p is then seen through u.
C8_MethodBinding ==
    prog.fam = "meth"
        => /\ \A i \in FramesBinding(<<"this">>) :
                 LET store == st.frames[i].store
                 IN /\ DOMAIN store = {<<"this">>, <<"self">>, <<"p">>, <<"q">>}
                    /\ store[<<"this">>].t = "struct"
                    /\ st.heap[store[<<"this">>].v].cells[<<"_struct">>] = StrV("T")
                    /\ store[<<"self">>] = store[<<"this">>]
                    /\ store[<<"p">>] = IntV(prog.a)
                    /\ store[<<"q">>] = IntV(prog.b)
                    /\ st.frames[i].parent = GlobalEnv
           /\ Finished => /\ FramesBinding(<<"this">>) # {}
                          /\ st.out = <<ToString(prog.a)>>

\* u.m(2, 3) was called on a local struct of main and u.f is now 2
C8_Witness ==
    /\ prog.fam = "meth" /\ prog.a = 2 /\ prog.b = 3 /\ prog.c = 1
    /\ Finished
    /\ FramesBinding(<<"this">>) # {}
    /\ st.out = <<"2">>

\* the function and let declarations of a statement list
Declarations(stmts) == {i \in 1..Len(stmts) : stmts[i].k \in {"fn", "let"}}

\* C9: in the combined statement list a declaration of the imported module
\* mathx appears under the name mathx.NAME if and only if it is declared
\* pub, and the call mathx.f() of a function f that is not pub is reported
\* by the type checker as an unknown function.
C9_RenamedIffPub ==
    (prog.fam = "imp" /\ Len(allStmts) > 0 /\ pc # "check")
        => /\ \A i \in Declarations(MathxModule(prog.a, prog.b)) :
                 LET decl == MathxModule(prog.a, prog.b)[i]
                 IN (\E j \in 1..Len(allStmts) :
                        /\ allStmts[j].k = decl.k
                        /\ allStmts[j].Name = <<"mathx">> \o decl.Name)
                    <=> decl.Visibility = "pub"
           /\ (prog.a = 2 /\ prog.c \in {1, 2})
                 => \E k \in 1..Len(typeErrs) : typeErrs[k] = "Unknown function 'mathx.f'"

\* the faults of a project that make loading, parsing or type checking fail
FailingFaults == {1, 2, 3, 4, 5, 6, 7, 8, 9, 10, 11, 12, 13}

\* C10: the evaluator is started only after loading, parsing and type
\* checking have finished without error: once a statement list is being
\* evaluated, or the process has ended with status 0, the loader returned
\* no error, every file it loaded was readable and parsed without errors,
\* every import was found and the type checker returned no error; and a
\* run in which one of these failed ends with a nonzero status and without
\* any interpreter state having been made.
C10_EvaluatorGated ==
    /\ (pc \in {"top", "lookup", "main", "exit", "cut"} \/ st # NewState \/ exit = 0)
          => /\ loadErr = ""
             /\ typeErrs = <<>>
             /\ Check(allStmts) = <<>>
             /\ \A p \in loaded :
                   FileExists(Fs, p) /\ FileOf(Fs, p).readable /\ FileOf(Fs, p).errors = 0
             /\ \A j \in 1..Len(allStmts) :
                   allStmts[j].k = "import"
                       => FoundDir(Fs, EntryPath(Args), Config.sourceDirs,
                                   allStmts[j].Path, 1) # 0
             /\ ~(prog.fam = "imp" /\ prog.b \in FailingFaults)
    /\ (pc = "done" /\ (loadErr # "" \/ typeErrs # <<>>
                        \/ (prog.fam = "imp" /\ prog.b \in FailingFaults)))
          => exit # 0 /\ st = NewState

\* the type checker returned an error: the process ended with status 1 and
\* nothing was evaluated
C10_Witness ==
    /\ pc = "done"
    /\ loadErr = ""
    /\ typeErrs # <<>>
    /\ exit = 1
    /\ st = NewState


(***************************************************************************)
(* C11: for every finite input, calling NextToken again and again reaches  *)
(* an EOF token after at most one call more than the input has bytes:      *)
(* every call that returns another token has consumed at least one byte of *)
(* the input, and no call reads the input out of range, not for a string   *)
(* literal without its closing quote and not for a comment the input ends  *)
(* in.                                                                     *)
(***************************************************************************)
LastToken == lex.toks[Len(lex.toks)]

C11_LexerReachesEOF ==
    /\ lex.l.ch # OutOfRange
    /\ \A i \in 1..Len(lex.toks) :
          \A j \in 1..Len(lex.toks[i].Literal) : lex.toks[i].Literal[j] # OutOfRange
    /\ lex.toks # <<>> => (LastToken.Type # "EOF" => Consumed(lex.l) > lex.before)
    /\ Len(lex.toks) > Len(lex.l.input) => ReturnedEOF(lex.toks)

\* an identifier, a string literal the input ends in, then EOF
C11_Witness ==
    /\ lex.l.input = <<"i", " ", QUOTE, "F">>
    /\ Len(lex.toks) = 3
    /\ lex.toks[1].Type = "IDENT"
    /\ lex.toks[2].Type = "STRING" /\ lex.toks[2].Literal = <<"F">>
    /\ lex.toks[3].Type = "EOF"


(***************************************************************************)
(* C12: ParseProgram terminates on every finite token stream: a production *)
(* that fails has consumed at least one token before the next attempt, at  *)
(* top level and inside blocks, array literals and argument lists alike,   *)
(* so no loop of the parser comes round at the token it was at before.     *)
(***************************************************************************)
C12_ParseProgramTerminates == par.pc # "spin"


(***************************************************************************)
(* C13: the statement list of ParseProgram holds exactly one element per   *)
(* successfully parsed top-level construct: a top-level production that    *)
(* fails, also one following pub, records an error, adds no element to the *)
(* list, and parsing goes on with the following tokens.                    *)
(***************************************************************************)
C13_OneElementPerParsedConstruct ==
    /\ par.pc # "panic"
    /\ \A i \in 1..Len(par.stmts) : par.stmts[i].k # "nilptr"


(***************************************************************************)
(* C16: binary expressions are parsed with the multiplicative operators    *)
(* binding tighter than the additive ones, these tighter than the          *)
(* comparisons, and these tighter than && and ||, every level associating  *)
(* to the left: return x op1 y op2 z yields x op1 (y op2 z) when op2 binds *)
(* tighter than op1 and (x op1 y) op2 z otherwise; 1 + 2 * 3 evaluates to  *)
(* 7 and a - b - c is (a - b) - c.                                         *)
(***************************************************************************)
\* how tightly an operator binds
Level(op) ==
    CASE op \in MultiplicativeOps -> 4
      [] op \in AdditiveOps -> 3
      [] op \in ComparisonOps -> 2
      [] op \in LogicalOps -> 1

Operand(tok) ==
    IF tok.Type = "INT" THEN IntegerLiteral(ParseInt(tok.Literal)) ELSE Identifier(tok.Literal)

\* return x op1 y op2 z
IsChain(toks) ==
    IF Len(toks) # 6 THEN FALSE
    ELSE /\ toks[1].Type = "RETURN"
         /\ \A i \in {2, 4, 6} : toks[i].Type \in {"INT", "IDENT"}
         /\ \A i \in {3, 5} : toks[i].Type \in BinaryOps

Grouped(toks) ==
    IF Level(toks[5].Type) > Level(toks[3].Type)
    THEN BinaryExpression(Operand(toks[2]), toks[3].Type,
                          BinaryExpression(Operand(toks[4]), toks[5].Type, Operand(toks[6])))
    ELSE BinaryExpression(BinaryExpression(Operand(toks[2]), toks[3].Type, Operand(toks[4])),
                          toks[5].Type, Operand(toks[6]))

OnePlusTwoTimesThree == Chain(<<IntTok(<<"1">>), IntTok(<<"2">>), IntTok(<<"3">>)>>, "+", "*")
AMinusBMinusC == Chain(<<Ident("a"), Ident("b"), Ident("c")>>, "-", "-")

C16_PrecedenceAndAssociativity ==
    (par.pc = "done" /\ IsChain(par.p.toks))
        => /\ par.p.Errors = <<>>
           /\ par.stmts = <<ReturnStatement(Grouped(par.p.toks))>>
           /\ par.p.toks = OnePlusTwoTimesThree
                 => evalExpr(par.stmts[1].Value, GlobalEnv, NewEnvironment(NewState)).val
                        = IntV(7)
           /\ par.p.toks = AMinusBMinusC
                 => par.stmts[1].Value
                        = BinaryExpression(
                              BinaryExpression(Identifier(<<"a">>), "-", Identifier(<<"b">>)),
                              "-", Identifier(<<"c">>))

\* 1 + 2 * 3 has been parsed as 1 + (2 * 3)
C16_Witness ==
    /\ par.pc = "done"
    /\ par.p.toks = OnePlusTwoTimesThree
    /\ par.stmts = <<ReturnStatement(
                        BinaryExpression(IntegerLiteral(1), "+",
                            BinaryExpression(IntegerLiteral(2), "*", IntegerLiteral(3))))>>


(***************************************************************************)
(* C14: the errors of the type checker are a function of the statement     *)
(* list alone: two runs of Check on the same list return the same set of   *)
(* errors, and a run after one that returned no errors returns none; what  *)
(* a run has left in its maps has no influence on the next.                *)
(***************************************************************************)
ErrorSet(errs) == {errs[i] : i \in 1..Len(errs)}

RECURSIVE Stray(_, _)
StrayIn(s, inLoop) ==
    CASE s.k \in {"break", "continue"} -> IF inLoop THEN 0 ELSE 1
      [] s.k = "if" -> Stray("stmts", <<s.IfBody, 1, inLoop>>)
                       + Stray("bodies", <<s.ElifBodies, 1, inLoop>>)
                       + Stray("stmts", <<s.ElseBody, 1, inLoop>>)
      [] s.k \in {"while", "for"} -> Stray("stmts", <<s.Body, 1, TRUE>>)
      [] s.k = "fn" -> Stray("stmts", <<s.Body, 1, FALSE>>)
      [] OTHER -> 0
Stray(f, x) ==
    IF x[2] > Len(x[1]) THEN 0
    ELSE (IF f = "stmts" THEN StrayIn(x[1][x[2]], x[3])
          ELSE Stray("stmts", <<x[1][x[2]], 1, x[3]>>))
         + Stray(f, <<x[1], x[2] + 1, x[3]>>)

BreakErrors(errs) ==
    Cardinality({i \in 1..Len(errs) : errs[i] \in {"Break statement not inside a loop",
                                                    "Continue statement not inside a loop"}})

C15_StrayBreakReported ==
    chk.runs # <<>> => BreakErrors(chk.runs[1]) = Stray("stmts", <<chk.stmts, 1, FALSE>>)


(***************************************************************************)
(* C17: a return statement executed at top level ends execution, no later  *)
(* top-level statement is evaluated; and once the body of main executes a  *)
(* return, none of main's remaining statements are executed.               *)
(***************************************************************************)
C17_ReturnEndsExecution ==
    prog.fam = "tret" => \A i \in 1..Len(st.out) : st.out[i] # "after"


(***************************************************************************)
(* C18: && and || short-circuit: when the left operand of && is falsy or   *)
(* the left operand of || is truthy, the right operand is not evaluated,   *)
(* so a function call in the right operand has no side effect.             *)
(***************************************************************************)
C18_ShortCircuit ==
    prog.fam = "sc" => \A i \in 1..Len(st.out) : st.out[i] # "called"


(***************************************************************************)
(* C19: for every array and every pair of integer bounds, present or       *)
(* absent, negative or greater than the length, a slice expression never   *)
(* aborts and yields the elements from start' to end', start' being start  *)
(* (0 when absent) clamped to [0, len] and end' being end (len when        *)
(* absent) clamped to [start', len].                                       *)
(***************************************************************************)
Clamp(n, lo, hi) == IF n < lo THEN lo ELSE IF n > hi THEN hi ELSE n
ClampedStart(a) == IF a = 0 THEN 0 ELSE Clamp(a - 2, 0, XsLen)
ClampedEnd(a, b) == IF b = 0 THEN XsLen ELSE Clamp(b - 2, ClampedStart(a), XsLen)
\* xs[start':end'] for xs = [1, 2, 3]
ClampedSlice(a, b) ==
    [i \in 1..(ClampedEnd(a, b) - ClampedStart(a)) |-> IntV(ClampedStart(a) + i)]

C19_SliceIsClamped ==
    prog.fam = "slice"
        => /\ st.halt # "panic"
           /\ pc = "exit"
                 => /\ Get(st.frames, mainEnv, <<"ys">>).val.t = "arr"
                    /\ ArrElems(st, Get(st.frames, mainEnv, <<"ys">>).val)
                           = ClampedSlice(prog.a, prog.b)


(***************************************************************************)
(* C20: reading xs[i] with i outside 0..len-1 or with an index that is not *)
(* an Int yields nil without aborting; an indexed assignment xs[i] >> v    *)
(* with such an index leaves every element of the array and its length     *)
(* unchanged; reading a map at a key it does not hold yields nil.          *)
(***************************************************************************)
VarOfMain(name) == Get(st.frames, mainEnv, <<name>>).val

RECURSIVE Rounds(_)
Rounds(n) == IF n = 0 THEN <<>> ELSE <<"cond", "body", "post">> \o Rounds(n - 1)
\* what the program of the family "for" prints
ForTrace(d) ==
    <<"init">>
    \o (IF d.a = 3 /\ d.b > 0 THEN <<"cond", "body">> ELSE Rounds(d.b) \o <<"cond">>)
    \o <<"end">>
IsPrefix(s, t) == Len(s) <= Len(t) /\ s = SubSeq(t, 1, Len(s))

C21_ForLoopOrder ==
    prog.fam = "for"
        => /\ IsPrefix(st.out, ForTrace(prog))
           /\ pc = "exit"
                 => /\ st.out = ForTrace(prog)
                    /\ prog.c = 1 => ~Get(st.frames, mainEnv, <<"i">>).ok
                    /\ prog.c = 2 => Get(st.frames, mainEnv, <<"i">>).val = IntV(7)

\* two rounds, each ended by continue, have run post twice
C21_Witness ==
    /\ prog = Desc("for", 2, 2, 1)
    /\ pc = "exit"
    /\ st.out = <<"init", "cond", "body", "post", "cond", "body", "post", "cond", "end">>


(***************************************************************************)
(* C22: a dotted identifier is a left-associative chain of fields: reading *)
(* a.b.c yields the field c of the struct stored in the field b of the     *)
(* struct bound to a, and the assignment a.b.c >> v changes the field c of *)
(* that inner struct and adds no entry keyed "b.c" to a.                   *)
(***************************************************************************)
\* the fields of the struct a variable of main is bound to
FieldsOfMain(name) == st.heap[VarOfMain(name).v].cells

C22_FieldChain ==
    (prog.fam = "chain" /\ pc = "exit")
        => /\ st.out = IF prog.a = 1 THEN <<"1">> ELSE <<"5">>
           /\ DOMAIN FieldsOfMain("a") = {<<"_struct">>, <<"b">>}
           /\ FieldsOfMain("a")[<<"b">>] = VarOfMain("in")
           /\ FieldsOfMain("in")[<<"c">>] = IF prog.a = 1 THEN IntV(1) ELSE IntV(5)


(***************************************************************************)
(* C23: for an assignment to a simple identifier the type checker reports  *)
(* an error when the target is not declared in the current scope chain,    *)
(* and otherwise reports one exactly when the inferred type of the value   *)
(* does not match the declared type (any accepts every type that is not an *)
(* array, any[] every array type); an assignment that passes never targets *)
(* a name that is not declared when it is executed.                        *)
(***************************************************************************)
\* the scope the assignment of the family "asg" stands in holds x: the
\* block itself before the assignment, the parameters, the global scope
AsgDeclared(d) == d.a \in {1, 5, 6}
\* the value of the kind c matches the declared type of the kind b
AsgMatches(d) ==
    CASE d.b = 1 -> d.c = 1
      [] d.b = 2 -> d.c \in {1, 2}
      [] d.b = 3 -> d.c = 3
      [] d.b = 4 -> d.c = 3
\* the statement main or the top level is about to execute
AtStatement ==
    IF pc = "top" /\ idx <= Len(allStmts) THEN allStmts[idx]
    ELSE IF pc = "main" /\ idx <= Len(MainBody) THEN MainBody[idx]
    ELSE NoStmt
EnvOfStatement == IF pc = "main" THEN mainEnv ELSE GlobalEnv

C23_AssignmentChecked ==
    prog.fam = "asg"
        => /\ pc \notin {"start", "load", "check"}
                 => ((typeErrs # <<>>) <=> (~AsgDeclared(prog) \/ ~AsgMatches(prog)))
           /\ (AtStatement.k = "assign" /\ Running(st))
                 => Get(st.frames, EnvOfStatement, AtStatement.Name).ok

(***************************************************************************)
(* C24: for an assignment to a qualified target a.b the type checker       *)
(* reports an error unless a is declared, the declared type of a is a      *)
(* registered struct, b is a field of that struct and the inferred type of *)
(* the value equals the declared type of the field b.                      *)
(***************************************************************************)
C24_QualifiedAssignmentChecked ==
    (prog.fam = "fasg" /\ chk.runs # <<>>)
        => ((chk.runs[1] # <<>>) <=> (prog.a # 1))

(***************************************************************************)
(* C25: for every return statement of a function body, at any nesting      *)
(* depth, the type checker reports an error exactly when the function is   *)
(* void and the return carries a value other than nil, or the function is  *)
(* not void and the return carries no value or a value whose inferred type *)
(* differs from the declared return type.                                  *)
(***************************************************************************)
\* the return of the family "rt" breaks the rule: void with an Int or a
\* String, int with no value, nil or a String
RtWrong(d) == IF d.b = 1 THEN d.c \in {3, 4} ELSE d.c \in {1, 2, 4}

C25_ReturnCheckedAtAnyDepth ==
    (prog.fam = "rt" /\ chk.runs # <<>>)
        => ((chk.runs[1] # <<>>) <=> RtWrong(prog))

(***************************************************************************)
(* C26: the type checker gives an ordering comparison (<, <=, >, >=) the   *)
(* type bool only when both operands have the type int; with other operand *)
(* types the expression has no type and the enclosing statement is         *)
(* reported as an error.  ==, !=, && and || always have the type bool.     *)
(***************************************************************************)
OrderingOps == {"LT", "LTE", "GT", "GTE"}
AlwaysBoolOps == {"EQ", "NEQ", "AND", "OR"}
\* the operands of the family "bin" that are Ints
IntOperands == {i \in 1..Len(Operands) : Operands[i].k = "int"}

C26_OrderingNeedsInts ==
    (prog.fam = "bin" /\ chk.runs # <<>>)
        => /\ BinOps[prog.a] \in OrderingOps
                 => ((chk.runs[1] = <<>>) <=> (prog.b \in IntOperands /\ prog.c \in IntOperands))
           /\ BinOps[prog.a] \in AlwaysBoolOps => chk.runs[1] = <<>>

(***************************************************************************)
(* C28: every statement nested in an if, elif or else body is type-checked *)
(* under the rules of the enclosing block, so a program the type checker   *)
(* accepts has no type mismatch, no assignment to an undeclared name and   *)
(* no call of an unknown function inside an if, elif or else body.         *)
(***************************************************************************)
\* the statement of the family "ifchk" is one the rules of a block reject
IfChkFaulty(d) == d.b \in 1..3

C28_IfBodiesChecked ==
    (prog.fam = "ifchk" /\ chk.runs # <<>>)
        => ((chk.runs[1] = <<>>) <=> ~IfChkFaulty(prog))

(***************************************************************************)
(* C30: the array a slice expression xs[a:b] returns shares its elements   *)
(* with xs: after let ys int[] >> xs[a:b] the assignment ys[0] >> v        *)
(* changes xs[a] to v, and an assignment xs[a] >> v changes ys[0].         *)
(***************************************************************************)
\* xs = [1, 2, 3] of the family "view" with 99 at the 0-based index a
XsWith99(a) == [i \in 1..XsLen |-> IntV(IF i = a + 1 THEN 99 ELSE i)]

C30_SliceIsView ==
    (prog.fam = "view" /\ pc = "exit")
        => /\ st.out = <<"99">>
           /\ ArrElems(st, VarOfMain("xs")) = XsWith99(prog.a)
           /\ ArrElems(st, VarOfMain("ys")) = SubSeq(XsWith99(prog.a), prog.a + 1, prog.b)

C30_Witness ==
    /\ prog = Desc("view", 1, 3, 1) /\ pc = "exit"
    /\ ArrElems(st, VarOfMain("ys")) = <<IntV(99), IntV(3)>>
    /\ ArrElems(st, VarOfMain("xs")) = <<IntV(1), IntV(99), IntV(3)>>

(***************************************************************************)
(* C27: the loader parses each file path at most once per run and          *)
(* terminates for every finite import graph, cycles and diamonds included: *)
(* a path that is already in the loaded set is skipped without being read  *)
(* or parsed again.                                                        *)
(***************************************************************************)
NoDup(s) == \A i, j \in 1..Len(s) : s[i] = s[j] => i = j
Range(s) == {s[i] : i \in 1..Len(s)}

\* every path is read once, the paths read are the paths marked, and a run
\* reads no more than every file once under its absolute path and the main
\* file under the path of the command line
C27_EachPathReadOnce ==
    /\ NoDup(reads)
    /\ Range(reads) = loaded
    /\ Len(reads) <= Cardinality(DOMAIN Fs) + 1

\* the cycle of mathx and util, loaded from main
C27_Witness ==
    /\ prog.fam = "imp" /\ prog.b = 14 /\ pc = "check"
    /\ reads = <<MainPath, MathxPath, UtilPath>>
    /\ loadErr = ""

(***************************************************************************)
(* C29: over any sequence of go.file.open, go.file.create and              *)
(* go.file.close calls every successful open or create returns a handle    *)
(* different from every handle returned earlier in the run, also after a   *)
(* close, and after go.file.close(h) the handle h is absent from the file  *)
(* table and from the reader table, so that a later read, readline, write  *)
(* or close on h touches no file.                                          *)
(***************************************************************************)
FileOps == st.files.ops
Issues(e) == e.op \in {"open", "create"}

C29_HandlesNeverReused ==
    /\ \A i, j \in 1..Len(FileOps) :
           (Issues(FileOps[i]) /\ Issues(FileOps[j]) /\ FileOps[i].h = FileOps[j].h) => i = j
    /\ \A i \in 1..Len(FileOps) :
           FileOps[i].op = "close"
               => /\ FileOps[i].h \notin DOMAIN st.files.fileHandles
                  /\ FileOps[i].h \notin st.files.fileReaders
                  /\ \A j \in (i + 1)..Len(FileOps) :
                         FileOps[j].h = FileOps[i].h
                             => ~Issues(FileOps[j]) /\ ~FileOps[j].used

\* h1 is opened and closed, h2 opened, then h1 is written, read and closed
C29_Witness ==
    /\ prog = Desc("file", 1, 2, 1) /\ pc = "exit"
    /\ FileOps = <<FileEvent("open", 1, TRUE), FileEvent("close", 1, TRUE),
                   FileEvent("open", 2, TRUE), FileEvent("write", 1, FALSE),
                   FileEvent("readline", 1, FALSE), FileEvent("read", 1, FALSE),
                   FileEvent("close", 1, FALSE), FileEvent("close", 2, TRUE)>>
    /\ st.out = <<"1", "2">>
====
